---- MODULE Spec2Model ----
(***************************************************************************)
(* Model of the danmu-to-ASS pipeline of                                   *)
(* src/plugins.v2/danmuziyong/danmu_generator.py:                          *)
(*   DanmuConverter.filter_comments          (lines 192-285)               *)
(*   DanmuConverter.find_non_overlapping_track (lines 323-332)             *)
(*   DanmuConverter.convert_comments_to_ass  (lines 335-419)               *)
(*   danmu_generator                         (lines 546-598)               *)
(*                                                                         *)
(* A comment is the provider's record {'p': "offset,pos,color,user",       *)
(* 'm': text}.  It is modelled as a record                                 *)
(*   [id, p, t, pos, m, user]                                              *)
(* id  : the identity of the Python dict (its index in the provider list), *)
(* p   : the shape of the 'p' string ("ok" or one malformed shape),        *)
(* t   : float(p.split(',')[0]) in whole seconds,                          *)
(* pos : int(p.split(',')[1]),                                             *)
(* m   : the text, a number naming a string; 0 names the empty string and  *)
(*       TextLen(m) is len(text),                                          *)
(* user: p.split(',')[3], "bili" when it contains '[BiliBili]'.            *)
(* Times are whole seconds; the text lengths are chosen so that every      *)
(* quotient the code computes on them is a whole number of seconds.        *)
(***************************************************************************)
EXTENDS Integers, Sequences, FiniteSets, TLC

VARIABLES
    comments,           \* the list passed to the function under study
    max_comments,       \* filter_comments: max_comments (2000 in the code)
    height,             \* convert_comments_to_ass: height
    pc,                 \* position in the code
    sorted_comments,    \* filter_comments: sorted_comments
    unique_comments,    \* filter_comments: unique_comments
    filtered_comments,  \* filter_comments: filtered_comments
    i,                  \* filter_comments: the interval loop's i
    filter_ret,         \* the list filter_comments returned
    max_tracks,         \* convert_comments_to_ass: max_tracks
    scrolling_tracks,   \* convert_comments_to_ass: scrolling_tracks
    top_tracks,         \* convert_comments_to_ass: top_tracks
    idx,                \* convert_comments_to_ass: place of the loop in the list
    dialogues,          \* the Dialogue lines written to output_file, in order
    allocations,        \* history: the calls of find_non_overlapping_track
    danmu_file,         \* output_file on disk: "absent", "open" or "closed"
    caller,             \* "danmu_generator" when the call is made by it
    provided,           \* danmu_generator: comments_data["comments"]
    onlyFromBili,       \* danmu_generator: onlyFromBili
    directory,          \* the files next to the video, in os.walk order
    sub2,               \* danmu_generator: sub2, a place in directory (0 for None)
    merged,             \* combine_sub_ass returned True
    raised_at,          \* history: the stage whose exception was caught
    result,             \* what danmu_generator returned ("pending" before)
    timestamp,          \* convert_timestamp: its argument, in milliseconds
    rounded,            \* convert_timestamp: round(timestamp * 100.0)
    start_time,         \* the string convert_timestamp returned
    color,              \* convert_comments_to_ass: color = int(p[2])
    color_hex,          \* convert_comments_to_ass: color_hex
    call_time,          \* find_non_overlapping_track: current_time of the call
    track_ret,          \* the lane find_non_overlapping_track returned
    max_threads,        \* Danmu._max_threads (10 in the code)
    global_pc,          \* generate_danmu_global: position in the code
    global_files,       \* generate_danmu_global: video files still to be walked
    threading_list,     \* generate_danmu_global: threading_list
    global_started,     \* the threads generate_danmu_global started, by state
    global_k,           \* generate_danmu_global: place of the final join loop
    emby_pc,            \* update_emby_watching_danmu: position in the code
    emby_episodes,      \* update_emby_watching_danmu: episodes still to come
    threads,            \* update_emby_watching_danmu: threads
    emby_started,       \* the threads update_emby_watching_danmu started
    emby_k,             \* update_emby_watching_danmu: place of the final join loop
    transfer_events,    \* TransferComplete events still to arrive
    transfer_started,   \* the threads generate_danmu_after_transfer started
    transfer_target,    \* generate_danmu_after_transfer: target_file of each
    runs,               \* the runs of danmu_generator on the video so far
    files_once          \* history: the files on disk after the first run

\* the arguments of the call
inputs == <<comments, max_comments, height>>
\* the locals of filter_comments
filterVars == <<sorted_comments, unique_comments, filtered_comments, i, filter_ret>>
\* the locals of convert_comments_to_ass and what it wrote
emitVars == <<max_tracks, scrolling_tracks, top_tracks, idx, dialogues, allocations>>

\* the locals of danmu_generator and what it left on disk
genVars == <<caller, provided, onlyFromBili, directory, sub2, merged, raised_at, result>>

\* the argument and the result of the two formatting steps of a Dialogue line
formatVars == <<timestamp, rounded, start_time, color, color_hex>>

\* the argument and the result of a call of find_non_overlapping_track
trackVars == <<call_time, track_ret>>

\* the thread rosters of the plugin (src/plugins.v2/danmu/__init__.py)
poolVars == <<max_threads, global_pc, global_files, threading_list,
              global_started, global_k, emby_pc, emby_episodes, threads,
              emby_started, emby_k, transfer_events, transfer_started,
              transfer_target>>

\* the runs of danmu_generator on one video, one after the other
rerunVars == <<runs, files_once>>

\* the state of the functions that are also studied on their own
unitVars == <<formatVars, trackVars, poolVars, rerunVars>>

vars == <<inputs, pc, filterVars, emitVars, danmu_file, genVars, unitVars>>

----------------------------------------------------------------------------
(* Bounds of the model *)

\* longest provider list drawn freely
MaxLen == 3
\* largest budget tried against the freely drawn lists
MaxBudget == 3

\* offsets (seconds) a comment may carry
Offsets == {0, 1, 3}
\* texts: 0 is '', 1 and 2 are two different non-empty strings
Texts == {0, 1, 2}
\* lengths of the long, all-distinct lists that fill several intervals
LongLens == {10, 11, 21}
\* budgets tried against the long lists
LongBudgets == {9, 10, 20}

----------------------------------------------------------------------------
(* Program constants *)

\* filter_comments: time_intervals = 10
time_intervals == 10
\* danmu_generator: width: int = 1920
width == 1920
\* danmu_generator: fontsize: float = 50
fontsize == 50
\* danmu_generator: duration: float = 6
duration == 6
\* convert_comments_to_ass: subtitle_area_height = 150
subtitle_area_height == 150
\* convert_comments_to_ass: gap = 1
gap == 1
\* find_non_overlapping_track: last_time_remain = 100.0
last_time_remain == 100

----------------------------------------------------------------------------
(* Helpers *)

Max(a, b) == IF a >= b THEN a ELSE b

Range(s) == {s[k] : k \in 1..Len(s)}

\* sorted(..., key=float(p.split(',')[0])) raises for a record without 'p'
\* (KeyError) or with a non-numeric offset (ValueError)
HasOffset(c) == c.p \notin {"nop", "badoffset"}

\* InsertByTime with the comparison turned round: a descending sort
RECURSIVE InsertByTimeDescending(_, _)
InsertByTimeDescending(s, c) ==
    IF s = <<>> THEN <<c>>
    ELSE IF s[Len(s)].t >= c.t THEN Append(s, c)
    ELSE Append(InsertByTimeDescending(SubSeq(s, 1, Len(s) - 1), c), s[Len(s)])

\* the place sorted() gives c in the sorted list s: after every element whose
\* key is <= the key of c (ascending and stable)
RECURSIVE InsertByTime(_, _)
InsertByTime(s, c) ==
    IF s = <<>> THEN <<c>>
    ELSE IF s[Len(s)].t <= c.t THEN Append(s, c)
    ELSE Append(InsertByTime(SubSeq(s, 1, Len(s) - 1), c), s[Len(s)])

\* sorted(comments, key=lambda x: float(x['p'].split(',')[0])): ascending, stable
RECURSIVE SortByTime(_)
SortByTime(s) ==
    IF s = <<>> THEN <<>>
    ELSE InsertByTime(SortByTime(SubSeq(s, 1, Len(s) - 1)), s[Len(s)])

IsAscending(s) == \A k \in 1..(Len(s) - 1) : s[k].t <= s[k + 1].t

\* the texts of a list: comment.get('m', '')
TextsOf(s) == {s[k].m : k \in 1..Len(s)}

\* UniqueComments keeping the last comment of each text instead of the first
RECURSIVE UniqueCommentsKeepLast(_)
UniqueCommentsKeepLast(s) ==
    IF s = <<>> THEN <<>>
    ELSE LET rest == UniqueCommentsKeepLast(SubSeq(s, 2, Len(s)))
             c == s[1]
         IN  IF c.m \in TextsOf(rest) THEN rest ELSE <<c>> \o rest

\* lines 250-256: keep a comment when its text is not in seen_texts yet
RECURSIVE UniqueComments(_)
UniqueComments(s) ==
    IF s = <<>> THEN <<>>
    ELSE LET prev == UniqueComments(SubSeq(s, 1, Len(s) - 1))
             c == s[Len(s)]
         IN  IF c.m \in TextsOf(prev) THEN prev ELSE Append(prev, c)

\* random.sample(population, k): k different positions of the population, in
\* the order they were drawn
Samples(population, k) ==
    {[j \in 1..k |-> population[f[j]]] :
        f \in {g \in [1..k -> 1..Len(population)] :
                  \A a, b \in 1..k : a # b => g[a] # g[b]}}

\* line 264: interval_size = len(unique_comments) // time_intervals
interval_size(u) == Len(u) \div time_intervals

\* lines 268-270: unique_comments[start_idx:end_idx]
interval_comments(u, n) ==
    LET start_idx == n * interval_size(u)
        end_idx == IF n < time_intervals - 1 THEN (n + 1) * interval_size(u)
                   ELSE Len(u)
    IN  SubSeq(u, start_idx + 1, end_idx)

\* target_count rounding the share up instead of truncating it
target_count_rounded_up(u, n, budget) ==
    Max(1, (Len(interval_comments(u, n)) * budget + Len(u) - 1) \div Len(u))

\* line 273: max(1, int(len(interval_comments) * (max_comments / len(unique_comments))))
target_count(u, n, budget) ==
    Max(1, (Len(interval_comments(u, n)) * budget) \div Len(u))

----------------------------------------------------------------------------
(* filter_comments, lines 192-285 *)

\* line 201: the sort key raises on a record without a numeric offset; no
\* try statement of filter_comments or convert_comments_to_ass encloses it
FilterSortRaise ==
    /\ pc = "filter"
    /\ \E k \in 1..Len(comments) : ~HasOffset(comments[k])
    /\ pc' = "raised"
    /\ UNCHANGED <<unitVars, inputs, emitVars, danmu_file, genVars, sorted_comments,
                   unique_comments, filtered_comments, i, filter_ret>>

\* FilterReturnSorted de-duplicating before it returns
FilterReturnSortedDeduplicated ==
    /\ pc = "filter"
    /\ \A k \in 1..Len(comments) : HasOffset(comments[k])
    /\ Len(comments) <= max_comments
    /\ sorted_comments' = SortByTime(comments)
    /\ filter_ret' = UniqueComments(sorted_comments')
    /\ pc' = "filter_done"
    /\ UNCHANGED <<unitVars, inputs, emitVars, danmu_file, genVars, unique_comments,
                   filtered_comments, i>>

\* lines 201, 244-245: sort, and return the sorted list when within the budget
FilterReturnSorted ==
    /\ pc = "filter"
    /\ \A k \in 1..Len(comments) : HasOffset(comments[k])
    /\ Len(comments) <= max_comments
    /\ sorted_comments' = SortByTime(comments)
    /\ filter_ret' = sorted_comments'
    /\ pc' = "filter_done"
    /\ UNCHANGED <<unitVars, inputs, emitVars, danmu_file, genVars, unique_comments,
                   filtered_comments, i>>

\* lines 201, 249-256: sort, then drop every repeated text
FilterDedup ==
    /\ pc = "filter"
    /\ \A k \in 1..Len(comments) : HasOffset(comments[k])
    /\ Len(comments) > max_comments
    /\ sorted_comments' = SortByTime(comments)
    /\ unique_comments' = UniqueComments(sorted_comments')
    /\ pc' = "filter_unique"
    /\ UNCHANGED <<unitVars, inputs, emitVars, danmu_file, genVars, filtered_comments, i,
                   filter_ret>>

\* lines 261, 285: the de-duplicated list is within the budget
FilterReturnUnique ==
    /\ pc = "filter_unique"
    /\ Len(unique_comments) <= max_comments
    /\ filter_ret' = unique_comments
    /\ pc' = "filter_done"
    /\ UNCHANGED <<unitVars, inputs, emitVars, danmu_file, genVars, sorted_comments,
                   unique_comments, filtered_comments, i>>

\* lines 261-265: still over the budget, start the interval loop
FilterStartIntervals ==
    /\ pc = "filter_unique"
    /\ Len(unique_comments) > max_comments
    /\ filtered_comments' = <<>>
    /\ i' = 0
    /\ pc' = "filter_interval"
    /\ UNCHANGED <<unitVars, inputs, emitVars, danmu_file, genVars, sorted_comments,
                   unique_comments, filter_ret>>

\* lines 267-280: one pass of the loop over the intervals
FilterInterval ==
    /\ pc = "filter_interval"
    /\ i < time_intervals
    /\ LET ic == interval_comments(unique_comments, i)
           tc == target_count(unique_comments, i, max_comments)
       IN  IF tc < Len(ic)
           THEN \E smp \in Samples(ic, tc) :
                    filtered_comments' = filtered_comments \o smp
           ELSE filtered_comments' = filtered_comments \o ic
    /\ i' = i + 1
    /\ UNCHANGED <<unitVars, inputs, emitVars, danmu_file, genVars, pc, sorted_comments,
                   unique_comments, filter_ret>>

\* line 283: return filtered_comments
FilterReturnFiltered ==
    /\ pc = "filter_interval"
    /\ i = time_intervals
    /\ filter_ret' = filtered_comments
    /\ pc' = "filter_done"
    /\ UNCHANGED <<unitVars, inputs, emitVars, danmu_file, genVars, sorted_comments,
                   unique_comments, filtered_comments, i>>

NextFilter ==
    \/ FilterReturnSorted
    \/ FilterDedup
    \/ FilterReturnUnique
    \/ FilterStartIntervals
    \/ FilterInterval
    \/ FilterReturnFiltered

----------------------------------------------------------------------------
(* The lists filter_comments is tried on *)

\* a well-formed record {'p': "t,1,c,u", 'm': m}
ScrollComment(id, t, m) ==
    [id |-> id, p |-> "ok", t |-> t, pos |-> 1, m |-> m, user |-> "other"]

\* every list of at most MaxLen well-formed records, in any order
ShortLists ==
    UNION {{[k \in 1..n |-> ScrollComment(k, f[k][1], f[k][2])] :
               f \in [1..n -> Offsets \X Texts]} : n \in 0..MaxLen}

\* n records with n different texts, offsets ascending or descending
LongList(n, rev) ==
    [k \in 1..n |-> ScrollComment(k, IF rev THEN n - k ELSE k, k)]

LongLists == {LongList(n, rev) : n \in LongLens, rev \in BOOLEAN}

\* nothing is being formatted
FormatIdle ==
    /\ timestamp = 0 /\ rounded = 0 /\ start_time = <<>>
    /\ color = 0 /\ color_hex = <<>>

\* no call of find_non_overlapping_track outside the emitter
TrackIdle == call_time = 0 /\ track_ret = 0

\* no scrape, no Emby update and no transfer event under way
PoolIdle ==
    /\ max_threads = 10
    /\ global_pc = "idle" /\ global_files = 0 /\ threading_list = <<>>
    /\ global_started = <<>> /\ global_k = 0
    /\ emby_pc = "idle" /\ emby_episodes = 0 /\ threads = <<>>
    /\ emby_started = <<>> /\ emby_k = 0
    /\ transfer_events = 0 /\ transfer_started = <<>>
    /\ transfer_target = <<>>

\* the first run of danmu_generator on the video
FirstRun == runs = 1 /\ files_once = {}

InitLocals ==
    /\ FirstRun
    /\ FormatIdle
    /\ TrackIdle
    /\ PoolIdle
    /\ danmu_file = "absent"
    /\ sub2 = 0
    /\ merged = FALSE
    /\ raised_at = "none"
    /\ result = "pending"
    /\ max_tracks = 0
    /\ scrolling_tracks = <<>>
    /\ top_tracks = <<>>
    /\ idx = 0
    /\ dialogues = <<>>
    /\ allocations = <<>>
    /\ sorted_comments = <<>>
    /\ unique_comments = <<>>
    /\ filtered_comments = <<>>
    /\ i = 0
    /\ filter_ret = <<>>

InitFilter ==
    /\ \/ comments \in ShortLists /\ max_comments \in 1..MaxBudget
       \/ comments \in LongLists /\ max_comments \in LongBudgets
    /\ height = 1080
    /\ pc = "filter"
    /\ caller = "" /\ provided = <<>> /\ onlyFromBili = FALSE
    /\ directory = <<>>
    /\ InitLocals

SpecFilter == InitFilter /\ [][NextFilter]_vars

----------------------------------------------------------------------------
(* find_non_overlapping_track, lines 323-332 *)

\* line 327: track not in tracks or current_time >= tracks[track]
TrackFree(tracks, current_time, track) ==
    track \notin DOMAIN tracks \/ current_time >= tracks[track]

\* lines 326-332: the loop from `track`, with possible_track so far
RECURSIVE TrackLoop(_, _, _, _, _)
TrackLoop(tracks, current_time, maxTracks, track, possible_track) ==
    IF track > maxTracks THEN possible_track
    ELSE IF TrackFree(tracks, current_time, track) THEN track
    ELSE TrackLoop(tracks, current_time, maxTracks, track + 1,
                   IF tracks[track] - current_time > last_time_remain
                   THEN track ELSE possible_track)

\* find_non_overlapping_track returning the highest free lane instead of
\* the lowest
find_highest_free_track(tracks, current_time, maxTracks) ==
    LET free == {k \in 1..maxTracks : TrackFree(tracks, current_time, k)}
    IN  IF free = {} THEN TrackLoop(tracks, current_time, maxTracks, 1, 1)
        ELSE CHOOSE k \in free : \A j \in free : j <= k

\* lines 323-332
find_non_overlapping_track(tracks, current_time, maxTracks) ==
    TrackLoop(tracks, current_time, maxTracks, 1, 1)

\* tracks[track] = busy_until
SetTrack(tracks, track, busy_until) ==
    [k \in DOMAIN tracks \cup {track} |->
        IF k = track THEN busy_until ELSE tracks[k]]

----------------------------------------------------------------------------
(* convert_comments_to_ass, lines 335-419 *)

\* int(x / y) for y > 0: Python's int() truncates towards zero
TruncDiv(x, y) == IF x >= 0 THEN x \div y ELSE -((-x) \div y)

\* line 345: int((height - subtitle_area_height) / (fontsize * 0.8))
MaxTracks(h) == TruncDiv((h - subtitle_area_height) * 10, fontsize * 8)

\* len(text): '' for 0, a string of 32 characters for an odd number, of 64
\* characters for an even one
TextLen(m) == IF m = 0 THEN 0 ELSE IF m % 2 = 1 THEN 32 ELSE 64

\* lines 383-385: text_width = len(text) * fontsize * 0.6,
\* velocity = (width + text_width) / duration,
\* leave_time = text_width / velocity + gap; text_width is held times ten
leave_time(m) ==
    LET text_width10 == TextLen(m) * fontsize * 6
    IN  (text_width10 * duration) \div (width * 10 + text_width10) + gap

\* line 393: initial_y = (track_id - 1) * fontsize + 10
initial_y(track_id) == (track_id - 1) * fontsize + 10

\* line 396: the lane lies in the subtitle area
InSubtitleArea(track_id, h) ==
    subtitle_area_height > 0 /\ initial_y(track_id) > h - subtitle_area_height

\* line 366: len(p) < 3, with p = comment.get('p', '').split(',')
TooFewFields(c) == c.p \in {"nop", "short"}

\* lines 370-374: float(p[0]), int(p[1]), int(p[2]), p[3] raise
ParseRaises(c) == c.p \in {"badoffset", "badpos", "badcolor", "three"}

\* the comment the loop is at
Current == filter_ret[idx]

\* the record parsed, and its text not empty (lines 365-377)
Parsed(c) == c.p = "ok" /\ c.m # 0

\* ScrollBusyUntil without the leave time
ScrollBusyUntilOffsetOnly(c) == c.t

\* line 392: timeline + leave_time
ScrollBusyUntil(c) == c.t + leave_time(c.m)

\* TopBusyUntil with the time the text needs to leave added to the duration
TopBusyUntilWithLeaveTime(c) == c.t + duration + leave_time(c.m)

\* line 407: timeline + duration
TopBusyUntil(c) == c.t + duration

Allocation(c, track, tracks) ==
    [id |-> c.id, pos |-> c.pos, track |-> track,
     free |-> \E k \in 1..max_tracks : TrackFree(tracks, c.t, k)]

\* lines 339-348: the locals, then line 356 calls filter_comments
ConvertEntry ==
    /\ pc = "convert"
    /\ max_tracks' = MaxTracks(height)
    /\ scrolling_tracks' = <<>>
    /\ top_tracks' = <<>>
    /\ pc' = "filter"
    /\ UNCHANGED <<unitVars, inputs, filterVars, idx, dialogues, allocations, danmu_file,
                   genVars>>

\* lines 356-361: comments = filter_comments(comments), open output_file and
\* write the head
ConvertOpen ==
    /\ pc = "filter_done"
    /\ idx' = 1
    /\ dialogues' = <<>>
    /\ danmu_file' = "open"
    /\ pc' = "emit"
    /\ UNCHANGED <<unitVars, inputs, filterVars, max_tracks, scrolling_tracks, top_tracks,
                   allocations, genVars>>

\* lines 365-368: fewer than three fields, continue
EmitSkipShort ==
    /\ pc = "emit" /\ idx <= Len(filter_ret)
    /\ TooFewFields(Current)
    /\ idx' = idx + 1
    /\ UNCHANGED <<unitVars, inputs, pc, filterVars, danmu_file, genVars, max_tracks, scrolling_tracks,
                   top_tracks, dialogues, allocations>>

\* lines 370-374, 414-416: a field does not parse, the except clause continues
EmitSkipException ==
    /\ pc = "emit" /\ idx <= Len(filter_ret)
    /\ ParseRaises(Current)
    /\ idx' = idx + 1
    /\ UNCHANGED <<unitVars, inputs, pc, filterVars, danmu_file, genVars, max_tracks, scrolling_tracks,
                   top_tracks, dialogues, allocations>>

\* lines 376-377: empty text, continue
EmitSkipEmpty ==
    /\ pc = "emit" /\ idx <= Len(filter_ret)
    /\ Current.p = "ok" /\ Current.m = 0
    /\ idx' = idx + 1
    /\ UNCHANGED <<unitVars, inputs, pc, filterVars, danmu_file, genVars, max_tracks, scrolling_tracks,
                   top_tracks, dialogues, allocations>>

\* lines 390-400, 412: a scrolling comment outside the subtitle area
EmitScroll ==
    /\ pc = "emit" /\ idx <= Len(filter_ret)
    /\ Parsed(Current) /\ Current.pos = 1
    /\ LET track_id == find_non_overlapping_track(scrolling_tracks, Current.t,
                                                  max_tracks)
       IN  /\ ~InSubtitleArea(track_id, height)
           /\ scrolling_tracks' =
                  SetTrack(scrolling_tracks, track_id, ScrollBusyUntil(Current))
           /\ allocations' =
                  Append(allocations, Allocation(Current, track_id, scrolling_tracks))
           /\ dialogues' = Append(dialogues,
                  [id |-> Current.id, style |-> "move", track |-> track_id])
    /\ idx' = idx + 1
    /\ UNCHANGED <<unitVars, inputs, pc, filterVars, danmu_file, genVars, max_tracks, top_tracks>>

\* EmitScrollSkipped writing the comment on the lane it was given
EmitScrollSkippedWritten ==
    /\ pc = "emit" /\ idx <= Len(filter_ret)
    /\ Parsed(Current) /\ Current.pos = 1
    /\ LET track_id == find_non_overlapping_track(scrolling_tracks, Current.t,
                                                  max_tracks)
       IN  /\ InSubtitleArea(track_id, height)
           /\ scrolling_tracks' =
                  SetTrack(scrolling_tracks, track_id, ScrollBusyUntil(Current))
           /\ allocations' =
                  Append(allocations, Allocation(Current, track_id, scrolling_tracks))
           /\ dialogues' = Append(dialogues,
                  [id |-> Current.id, style |-> "move", track |-> track_id])
    /\ idx' = idx + 1
    /\ UNCHANGED <<unitVars, inputs, pc, filterVars, danmu_file, genVars, max_tracks, top_tracks>>

\* EmitScrollSkipped leaving the lane map as it was
EmitScrollSkippedUnrecorded ==
    /\ pc = "emit" /\ idx <= Len(filter_ret)
    /\ Parsed(Current) /\ Current.pos = 1
    /\ LET track_id == find_non_overlapping_track(scrolling_tracks, Current.t,
                                                  max_tracks)
       IN  /\ InSubtitleArea(track_id, height)
           /\ allocations' =
                  Append(allocations, Allocation(Current, track_id, scrolling_tracks))
    /\ idx' = idx + 1
    /\ UNCHANGED <<unitVars, inputs, pc, filterVars, danmu_file, genVars, max_tracks,
                   scrolling_tracks, top_tracks, dialogues>>

\* lines 390-398: a scrolling comment whose lane lies in the subtitle area:
\* the lane is taken, nothing is written
EmitScrollSkipped ==
    /\ pc = "emit" /\ idx <= Len(filter_ret)
    /\ Parsed(Current) /\ Current.pos = 1
    /\ LET track_id == find_non_overlapping_track(scrolling_tracks, Current.t,
                                                  max_tracks)
       IN  /\ InSubtitleArea(track_id, height)
           /\ scrolling_tracks' =
                  SetTrack(scrolling_tracks, track_id, ScrollBusyUntil(Current))
           /\ allocations' =
                  Append(allocations, Allocation(Current, track_id, scrolling_tracks))
    /\ idx' = idx + 1
    /\ UNCHANGED <<unitVars, inputs, pc, filterVars, danmu_file, genVars, max_tracks, top_tracks, dialogues>>

\* EmitBottom falling through to the else branch of line 409
EmitBottomWritten ==
    /\ pc = "emit" /\ idx <= Len(filter_ret)
    /\ Parsed(Current) /\ Current.pos = 4
    /\ dialogues' = Append(dialogues,
           [id |-> Current.id, style |-> "plain", track |-> 0])
    /\ idx' = idx + 1
    /\ UNCHANGED <<unitVars, inputs, pc, filterVars, danmu_file, genVars, max_tracks, scrolling_tracks,
                   top_tracks, allocations>>

\* lines 401-404: a bottom comment, continue
EmitBottom ==
    /\ pc = "emit" /\ idx <= Len(filter_ret)
    /\ Parsed(Current) /\ Current.pos = 4
    /\ idx' = idx + 1
    /\ UNCHANGED <<unitVars, inputs, pc, filterVars, danmu_file, genVars, max_tracks, scrolling_tracks,
                   top_tracks, dialogues, allocations>>

\* lines 405-408, 412: a top comment
EmitTop ==
    /\ pc = "emit" /\ idx <= Len(filter_ret)
    /\ Parsed(Current) /\ Current.pos = 5
    /\ LET track_id == find_non_overlapping_track(top_tracks, Current.t, max_tracks)
       IN  /\ top_tracks' = SetTrack(top_tracks, track_id, TopBusyUntil(Current))
           /\ allocations' =
                  Append(allocations, Allocation(Current, track_id, top_tracks))
           /\ dialogues' = Append(dialogues,
                  [id |-> Current.id, style |-> "pos", track |-> track_id])
    /\ idx' = idx + 1
    /\ UNCHANGED <<unitVars, inputs, pc, filterVars, danmu_file, genVars, max_tracks, scrolling_tracks>>

\* lines 409-412: any other position code
EmitOther ==
    /\ pc = "emit" /\ idx <= Len(filter_ret)
    /\ Parsed(Current) /\ Current.pos \notin {1, 4, 5}
    /\ dialogues' = Append(dialogues,
           [id |-> Current.id, style |-> "plain", track |-> 0])
    /\ idx' = idx + 1
    /\ UNCHANGED <<unitVars, inputs, pc, filterVars, danmu_file, genVars, max_tracks, scrolling_tracks,
                   top_tracks, allocations>>

\* ConvertClose returning with the file still open
ConvertCloseLeftOpen ==
    /\ pc = "emit" /\ idx > Len(filter_ret)
    /\ pc' = "convert_done"
    /\ UNCHANGED <<unitVars, inputs, filterVars, emitVars, danmu_file, genVars>>

\* lines 360, 418-419: the loop is over, the with statement closes the file
ConvertClose ==
    /\ pc = "emit" /\ idx > Len(filter_ret)
    /\ danmu_file' = "closed"
    /\ pc' = "convert_done"
    /\ UNCHANGED <<unitVars, inputs, filterVars, emitVars, genVars>>

NextEmit ==
    \/ ConvertEntry
    \/ FilterSortRaise
    \/ NextFilter
    \/ ConvertOpen
    \/ EmitSkipShort
    \/ EmitSkipException
    \/ EmitSkipEmpty
    \/ EmitScroll
    \/ EmitScrollSkipped
    \/ EmitBottom
    \/ EmitTop
    \/ EmitOther
    \/ ConvertClose

----------------------------------------------------------------------------
(* The calls convert_comments_to_ass is tried on *)

\* longest list passed to convert_comments_to_ass
MaxEmitLen == 3

\* heights giving 0, 1 and 2 lanes
Heights == {150, 190, 230}

\* the well-formed records: two scrolling texts, a top, a bottom and another
\* position code, and an empty text
Shapes == {<<1, 1>>, <<1, 2>>, <<5, 1>>, <<4, 1>>, <<6, 1>>, <<1, 0>>}

WellFormed(id, t, shape) ==
    [id |-> id, p |-> "ok", t |-> t, pos |-> shape[1], m |-> shape[2],
     user |-> "other"]

\* a malformed record; the fields the code cannot read are never read here
Malformed(id, p) ==
    [id |-> id, p |-> p, t |-> 1, pos |-> 1, m |-> 1, user |-> "other"]

\* the lists of well-formed records of length n in ascending order of offset
WellFormedLists(n) ==
    {[k \in 1..n |-> WellFormed(k, f[k][1], f[k][2])] :
        f \in {g \in [1..n -> Offsets \X Shapes] :
                  \A k \in 1..(n - 1) : g[k][1] <= g[k + 1][1]}}

\* the same, followed by one malformed record
MalformedLists(n) ==
    {Append(s, Malformed(n, p)) :
        s \in WellFormedLists(n - 1),
        p \in {"nop", "short", "badoffset", "badpos"}}

EmitLists ==
    UNION {WellFormedLists(n) : n \in 0..MaxEmitLen}
        \cup UNION {MalformedLists(n) : n \in 1..MaxEmitLen}

InitEmit ==
    /\ comments \in EmitLists
    /\ max_comments \in {2, MaxEmitLen}
    /\ height \in Heights
    /\ pc = "convert"
    /\ caller = "" /\ provided = <<>> /\ onlyFromBili = FALSE
    /\ directory = <<>>
    /\ InitLocals

SpecEmit == InitEmit /\ [][NextEmit]_vars

----------------------------------------------------------------------------
(* Calls of convert_comments_to_ass with more scrolling comments than lanes
   above the subtitle area *)

\* longest list of scrolling comments
MaxScrolls == 6

\* the lists of five to MaxScrolls scrolling comments in ascending order of
\* offset
ScrollLists ==
    UNION {{[k \in 1..n |-> WellFormed(k, f[k][1], <<1, f[k][2]>>)] :
               f \in {g \in [1..n -> Offsets \X {1, 2}] :
                         \A k \in 1..(n - 1) : g[k][1] <= g[k + 1][1]}} :
           n \in 5..MaxScrolls}

InitLanes ==
    /\ comments \in ScrollLists
    /\ max_comments = 2000
    /\ height = 350     \* five lanes, the fifth inside the subtitle area
    /\ pc = "convert"
    /\ caller = "" /\ provided = <<>> /\ onlyFromBili = FALSE
    /\ directory = <<>>
    /\ InitLocals

\* the steps of convert_comments_to_ass such a call takes
NextLanes ==
    \/ ConvertEntry
    \/ FilterReturnSorted
    \/ ConvertOpen
    \/ EmitScroll
    \/ EmitScrollSkipped
    \/ ConvertClose

SpecLanes == InitLanes /\ [][NextLanes]_vars

----------------------------------------------------------------------------
(* The files of the video's directory *)

\* A file of the directory is a record [name, ext, decodes, content]:
\* name is the file name without its extension, ext the extension, decodes
\* tells whether reading it with the encoding chardet detects succeeds, and
\* content is its text, a sequence of lines.  A line is a record [kind, val]:
\*   "info"          any line the merge does not look at
\*   "playres"       PlayResX: <val>
\*   "styles_header" [V4+ Styles]
\*   "style_format"  the Format: line of the style section
\*   "style"         Style: name,font,<val>,...   (val is the font size)
\*   "style_short"   a Style: line of fewer than three fields
\*   "style_bad"     a Style: line whose third field is not a number
\*   "events_header" [Events]
\*   "events_format" the Format: line of the event section
\*   "dialogue"      Dialogue: ...                (val names the line)
\*   "dialogue_style" a Dialogue: line whose text contains Style: and, from
\*                   there on, fewer than three fields
\*   "style_fragment" the part of such a line from Style: on
\*   "blank"         an empty line
Line(kind, val) == [kind |-> kind, val |-> val]

\* line 478: file.startswith(filename)
StartsWithStem(name) ==
    name \in {"video.zh", "video.danmu", "video.zh.withDanmu",
              "video.zh.withDanmu.withDanmu",
              "video.zh.withDanmu.withDanmu.withDanmu"}

\* line 477: 'danmu' in file (the comparison is case-sensitive)
ContainsDanmu(name) == name = "video.danmu"

\* line 526: os.path.splitext(sub2)[0] + ".withDanmu"
WithDanmu(name) ==
    IF name = "video.zh" THEN "video.zh.withDanmu"
    ELSE IF name = "video.zh.withDanmu" THEN "video.zh.withDanmu.withDanmu"
    ELSE IF name = "video.zh.withDanmu.withDanmu"
         THEN "video.zh.withDanmu.withDanmu.withDanmu"
    ELSE "other.withDanmu"

\* line 476: file.endswith(('.srt', '.ass', '.ssa'))
IsSubtitleExt(ext) == ext \in {"srt", "ass", "ssa"}

\* lines 474-483: the loop from the k-th file of the listing; 0 is None
RECURSIVE FindFrom(_, _)
FindFrom(dir, k) ==
    IF k > Len(dir) THEN 0
    ELSE IF /\ IsSubtitleExt(dir[k].ext)
            /\ ~ContainsDanmu(dir[k].name)
            /\ StartsWithStem(dir[k].name)
         THEN k
    ELSE FindFrom(dir, k + 1)

\* lines 472-483: the first file of the listing that qualifies
find_subtitle_file(dir) == FindFrom(dir, 1)

\* lines 296-320, 412: the text of the danmu file, PlayResX being the width
Sub1Content(written) ==
    <<Line("info", 0), Line("playres", width), Line("styles_header", 0),
      Line("style_format", 0), Line("style", fontsize), Line("blank", 0),
      Line("events_header", 0), Line("events_format", 0)>>
    \o [k \in 1..Len(written) |-> Line("dialogue", written[k].id)]

\* re.search: the place of the first line of s whose kind is one of kinds,
\* 0 when there is none
FirstLine(s, kinds) ==
    LET places == {k \in 1..Len(s) : s[k].kind \in kinds}
    IN  IF places = {} THEN 0
        ELSE CHOOSE k \in places : \A j \in places : k <= j

\* lines 503-504: re.search(r"PlayResX:\s*(\d+)", content); -1 when no match
PlayResX(content) ==
    LET k == FirstLine(content, {"playres"})
    IN  IF k = 0 THEN -1 ELSE content[k].val

\* line 510: the kinds of line matched by r"Format:.+"
FormatMatches == {"style_format", "events_format"}

\* line 514: a line matched by r'Style:.*'
StyleMatches(l) ==
    l.kind \in {"style", "style_short", "style_bad", "dialogue_style"}

\* line 514: what re.findall returns for the line: the text from Style: on
StyleMatch(l) ==
    IF l.kind = "dialogue_style" THEN Line("style_fragment", l.val) ELSE l

\* line 518: float(elements[2]) raises ValueError
StyleRaises(l) == l.kind = "style_bad"

\* lines 506-508: fontSizeRatio is 1, or sub1ResX / sub2ResX * 0.8;
\* line 518: str(int(float(elements[2]) * fontSizeRatio))
RescaledSize(size, sub1ResX, sub2ResX) ==
    IF sub1ResX >= 0 /\ sub2ResX >= 0
    THEN (size * sub1ResX * 8) \div (sub2ResX * 10)
    ELSE size

\* lines 515-519: the style line with its third field rescaled
Rescale(l, sub1ResX, sub2ResX) ==
    IF l.kind = "style"
    THEN Line("style", RescaledSize(l.val, sub1ResX, sub2ResX))
    ELSE l

\* str.strip() on the text: the empty lines at both ends are dropped
RECURSIVE Strip(_)
Strip(s) ==
    IF s = <<>> THEN <<>>
    ELSE IF s[1].kind = "blank" THEN Strip(Tail(s))
    ELSE IF s[Len(s)].kind = "blank" THEN Strip(SubSeq(s, 1, Len(s) - 1))
    ELSE s

\* lines 528-535: what is written to the merged file
MergedContent(sub1_content, format_line, style_lines, events_content) ==
    sub1_content
    \o <<Line("blank", 0), Line("styles_header", 0), format_line>>
    \o (IF style_lines = <<>> THEN <<Line("blank", 0)>> ELSE style_lines)
    \o <<Line("events_header", 0)>>
    \o events_content

\* return False before anything is written
NoMerge == [ok |-> FALSE, wrote |-> FALSE, output |-> <<>>]

\* combine_sub_ass writing the merged file before it looks for [Events]
combine_sub_ass_writes_first(sub1_content, file) ==
    IF ~file.decodes THEN NoMerge
    ELSE IF file.ext \notin {"ass", "ssa"} THEN NoMerge
    ELSE LET format_match == FirstLine(file.content, FormatMatches)
             events_start == FirstLine(file.content, {"events_header"})
         IN  IF format_match = 0 THEN NoMerge
             ELSE [ok |-> events_start # 0, wrote |-> TRUE,
                   output |-> sub1_content \o <<file.content[format_match]>>]

\* lines 486-543: [ok |-> the value returned, wrote |-> line 528 was reached,
\* output |-> the text written to <sub2-stem>.withDanmu.ass]
combine_sub_ass(sub1_content, file) ==
    IF ~file.decodes THEN NoMerge                            \* lines 499, 541
    ELSE IF file.ext \notin {"ass", "ssa"} THEN NoMerge      \* lines 502, 539
    ELSE LET sub1ResX == PlayResX(sub1_content)
             sub2ResX == PlayResX(file.content)
             format_match == FirstLine(file.content, FormatMatches)
             matches == SelectSeq(file.content, StyleMatches)
             style_lines ==
                 [k \in 1..Len(matches) |->
                     Rescale(StyleMatch(matches[k]), sub1ResX, sub2ResX)]
             events_start == FirstLine(file.content, {"events_header"})
             events_content ==
                 Strip(SubSeq(file.content, events_start + 1, Len(file.content)))
         IN  IF sub1ResX >= 0 /\ sub2ResX = 0 THEN NoMerge   \* line 508
             ELSE IF format_match = 0 THEN NoMerge           \* lines 511-512
             ELSE IF \E k \in 1..Len(matches) : StyleRaises(matches[k])
                  THEN NoMerge                               \* line 518
             ELSE IF events_start = 0 THEN NoMerge           \* lines 522-523
             ELSE [ok |-> TRUE, wrote |-> TRUE,
                   output |-> MergedContent(sub1_content,
                                  file.content[format_match], style_lines,
                                  events_content)]

\* open(path, 'w') and write: the file is replaced where the listing has it,
\* and added to the listing where it has not
RECURSIVE WriteFile(_, _)
WriteFile(dir, file) ==
    IF dir = <<>> THEN <<file>>
    ELSE IF dir[1].name = file.name /\ dir[1].ext = file.ext
         THEN <<file>> \o Tail(dir)
    ELSE <<dir[1]>> \o WriteFile(Tail(dir), file)

File(name, ext, decodes, content) ==
    [name |-> name, ext |-> ext, decodes |-> decodes, content |-> content]

\* line 441: what ffmpeg -c:s ass writes for an embedded subtitle stream
ExtractedContent ==
    <<Line("info", 0), Line("playres", 384), Line("styles_header", 0),
      Line("style_format", 0), Line("style", 20), Line("blank", 0),
      Line("events_header", 0), Line("events_format", 0),
      Line("dialogue", 1), Line("blank", 0)>>

----------------------------------------------------------------------------
(* danmu_generator, lines 546-598 *)

\* TryCovers for a try statement that starts only at the call of
\* convert_comments_to_ass
TryCoversFromConvert(stage) == stage \notin {"gen_fetch", "gen_sort", "gen_platform"}

\* the try statement of line 551 encloses every statement of the body
TryCovers(stage) == TRUE

\* where an exception raised at `stage` goes
RaiseFrom(stage) ==
    IF caller = "danmu_generator" /\ TryCovers(stage) THEN "except" ELSE "raised"

\* line 569: comment['p'].split(',')[3] raises IndexError
NoUserField(c) == c.p \in {"nop", "short", "three"}

\* line 569: the comments whose user field contains '[BiliBili]'
RECURSIVE OnlyBili(_)
OnlyBili(s) ==
    IF s = <<>> THEN <<>>
    ELSE IF s[1].user = "bili" THEN <<s[1]>> \o OnlyBili(Tail(s))
    ELSE OnlyBili(Tail(s))

ReturnNone ==
    /\ result' = "None"
    /\ pc' = "returned"

\* lines 552-555: get_comment_id found nothing (it catches its own exceptions)
GenNoCommentId ==
    /\ pc = "gen_id"
    /\ ReturnNone
    /\ UNCHANGED <<unitVars, inputs, filterVars, emitVars, danmu_file, caller, provided,
                   onlyFromBili, directory, sub2, merged, raised_at>>

\* line 552: get_comment_id returned an id
GenCommentId ==
    /\ pc = "gen_id"
    /\ pc' = "gen_fetch"
    /\ UNCHANGED <<unitVars, inputs, filterVars, emitVars, danmu_file, genVars>>

\* lines 557-559: get_comments returned None or an empty answer
GenFetchNothing ==
    /\ pc = "gen_fetch"
    /\ ReturnNone
    /\ UNCHANGED <<unitVars, inputs, filterVars, emitVars, danmu_file, caller, provided,
                   onlyFromBili, directory, sub2, merged, raised_at>>

\* line 561: comments_data has no "comments" key
GenFetchNoKey ==
    /\ pc = "gen_fetch"
    /\ pc' = RaiseFrom("gen_fetch")
    /\ raised_at' = "gen_fetch"
    /\ UNCHANGED <<unitVars, inputs, filterVars, emitVars, danmu_file, caller, provided,
                   onlyFromBili, directory, sub2, merged, result>>

\* line 557: get_comments returned the provider's answer
GenFetch ==
    /\ pc = "gen_fetch"
    /\ pc' = "gen_sort"
    /\ UNCHANGED <<unitVars, inputs, filterVars, emitVars, danmu_file, genVars>>

\* line 561: the sort key raises on a record without a numeric offset
GenSortRaise ==
    /\ pc = "gen_sort"
    /\ \E k \in 1..Len(provided) : ~HasOffset(provided[k])
    /\ pc' = RaiseFrom("gen_sort")
    /\ raised_at' = "gen_sort"
    /\ UNCHANGED <<unitVars, inputs, filterVars, emitVars, danmu_file, caller, provided,
                   onlyFromBili, directory, sub2, merged, result>>

\* line 561: comments = sorted(comments_data["comments"], ...)
GenSort ==
    /\ pc = "gen_sort"
    /\ \A k \in 1..Len(provided) : HasOffset(provided[k])
    /\ comments' = SortByTime(provided)
    /\ pc' = "gen_empty"
    /\ UNCHANGED <<unitVars, max_comments, height, filterVars, emitVars, danmu_file, genVars>>

\* lines 563-565: no comments
GenEmpty ==
    /\ pc = "gen_empty"
    /\ Len(comments) = 0
    /\ ReturnNone
    /\ UNCHANGED <<unitVars, inputs, filterVars, emitVars, danmu_file, caller, provided,
                   onlyFromBili, directory, sub2, merged, raised_at>>

\* line 568: onlyFromBili is off
GenNoPlatformFilter ==
    /\ pc = "gen_empty"
    /\ Len(comments) # 0
    /\ ~onlyFromBili
    /\ pc' = "convert"
    /\ UNCHANGED <<unitVars, inputs, filterVars, emitVars, danmu_file, genVars>>

\* lines 568-569: a record has no fourth field
GenPlatformFilterRaise ==
    /\ pc = "gen_empty"
    /\ Len(comments) # 0
    /\ onlyFromBili
    /\ \E k \in 1..Len(comments) : NoUserField(comments[k])
    /\ pc' = RaiseFrom("gen_platform")
    /\ raised_at' = "gen_platform"
    /\ UNCHANGED <<unitVars, inputs, filterVars, emitVars, danmu_file, caller, provided,
                   onlyFromBili, directory, sub2, merged, result>>

\* GenPlatformFilter returning None when no comment is left
GenPlatformFilterEmptyReturnsNone ==
    /\ pc = "gen_empty"
    /\ Len(comments) # 0
    /\ onlyFromBili
    /\ \A k \in 1..Len(comments) : ~NoUserField(comments[k])
    /\ comments' = OnlyBili(comments)
    /\ IF comments' = <<>>
       THEN ReturnNone
       ELSE pc' = "convert" /\ result' = result
    /\ UNCHANGED <<unitVars, max_comments, height, filterVars, emitVars, danmu_file,
                   caller, provided, onlyFromBili, directory, sub2, merged,
                   raised_at>>

\* lines 568-570: keep the comments from BiliBili
GenPlatformFilter ==
    /\ pc = "gen_empty"
    /\ Len(comments) # 0
    /\ onlyFromBili
    /\ \A k \in 1..Len(comments) : ~NoUserField(comments[k])
    /\ comments' = OnlyBili(comments)
    /\ pc' = "convert"
    /\ UNCHANGED <<unitVars, max_comments, height, filterVars, emitVars, danmu_file, genVars>>

\* line 360: open(output_file, 'w') raises
ConvertOpenRaise ==
    /\ pc = "filter_done"
    /\ pc' = RaiseFrom("convert")
    /\ raised_at' = "convert"
    /\ UNCHANGED <<unitVars, inputs, filterVars, emitVars, danmu_file, caller, provided,
                   onlyFromBili, directory, sub2, merged, result>>

\* the lines the danmu file holds
sub1_content == Sub1Content(dialogues)

\* lines 584, 587: find_subtitle_file found a subtitle file
GenFindSubtitle ==
    /\ pc \in {"convert_done", "gen_find"}
    /\ find_subtitle_file(directory) # 0
    /\ sub2' = find_subtitle_file(directory)
    /\ pc' = "gen_merge"
    /\ UNCHANGED <<unitVars, inputs, filterVars, emitVars, danmu_file, caller, provided,
                   onlyFromBili, directory, merged, raised_at, result>>

\* lines 584-585: find_subtitle_file found none
GenNoSubtitle ==
    /\ pc = "convert_done"
    /\ find_subtitle_file(directory) = 0
    /\ pc' = "gen_extract"
    /\ UNCHANGED <<unitVars, inputs, filterVars, emitVars, danmu_file, genVars>>

\* line 586: try_extract_sub raises (stream['index'], os.remove)
GenExtractRaise ==
    /\ pc = "gen_extract"
    /\ pc' = RaiseFrom("gen_extract")
    /\ raised_at' = "gen_extract"
    /\ UNCHANGED <<unitVars, inputs, filterVars, emitVars, danmu_file, caller, provided,
                   onlyFromBili, directory, sub2, merged, result>>

\* line 586, 452-469: try_extract_sub wrote <base>.<language>.ass
GenExtract ==
    /\ pc = "gen_extract"
    /\ \E decodes \in BOOLEAN :
           directory' = WriteFile(directory,
                            File("video.zh", "ass", decodes, ExtractedContent))
    /\ pc' = "gen_find"
    /\ UNCHANGED <<unitVars, inputs, filterVars, emitVars, danmu_file, caller, provided,
                   onlyFromBili, sub2, merged, raised_at, result>>

\* line 586, 452-469: no Chinese subtitle stream, or ffmpeg failed
GenExtractNothing ==
    /\ pc = "gen_extract"
    /\ pc' = "gen_find"
    /\ UNCHANGED <<unitVars, inputs, filterVars, emitVars, danmu_file, genVars>>

\* lines 587, 591-592: still no subtitle file, the merge is skipped
GenSkipMerge ==
    /\ pc = "gen_find"
    /\ find_subtitle_file(directory) = 0
    /\ pc' = "gen_return"
    /\ UNCHANGED <<unitVars, inputs, filterVars, emitVars, danmu_file, genVars>>

\* lines 589-590, 486-543: combine_sub_ass returned True
GenMerge ==
    /\ pc = "gen_merge"
    /\ LET r == combine_sub_ass(sub1_content, directory[sub2])
       IN  /\ r.ok
           /\ directory' =
                  IF r.wrote
                  THEN WriteFile(directory,
                           File(WithDanmu(directory[sub2].name), "ass", TRUE,
                                r.output))
                  ELSE directory
    /\ merged' = TRUE
    /\ pc' = "gen_return"
    /\ UNCHANGED <<unitVars, inputs, filterVars, emitVars, danmu_file, caller, provided,
                   onlyFromBili, sub2, raised_at, result>>

\* lines 589-590, 486-543: combine_sub_ass returned False (not .ass/.ssa, no
\* Format line, no [Events], or an exception it caught itself)
GenMergeFails ==
    /\ pc = "gen_merge"
    /\ LET r == combine_sub_ass(sub1_content, directory[sub2])
       IN  /\ ~r.ok
           /\ directory' =
                  IF r.wrote
                  THEN WriteFile(directory,
                           File(WithDanmu(directory[sub2].name), "ass", TRUE,
                                r.output))
                  ELSE directory
    /\ pc' = "gen_return"
    /\ UNCHANGED <<unitVars, inputs, filterVars, emitVars, danmu_file, caller, provided,
                   onlyFromBili, sub2, merged, raised_at, result>>

\* GenReturn returning the merged file when the merge succeeded
GenReturnMergedFile ==
    /\ pc = "gen_return"
    /\ result' = IF merged THEN "merged_file" ELSE "output_file"
    /\ pc' = "returned"
    /\ UNCHANGED <<unitVars, inputs, filterVars, emitVars, danmu_file, caller, provided,
                   onlyFromBili, directory, sub2, merged, raised_at>>

\* line 594: return output_file
GenReturn ==
    /\ pc = "gen_return"
    /\ result' = "output_file"
    /\ pc' = "returned"
    /\ UNCHANGED <<unitVars, inputs, filterVars, emitVars, danmu_file, caller, provided,
                   onlyFromBili, directory, sub2, merged, raised_at>>

\* lines 596-598: except Exception: return None
GenExcept ==
    /\ pc = "except"
    /\ ReturnNone
    /\ UNCHANGED <<unitVars, inputs, filterVars, emitVars, danmu_file, caller, provided,
                   onlyFromBili, directory, sub2, merged, raised_at>>

NextGen ==
    \/ GenNoCommentId
    \/ GenCommentId
    \/ GenFetchNothing
    \/ GenFetchNoKey
    \/ GenFetch
    \/ GenSortRaise
    \/ GenSort
    \/ GenEmpty
    \/ GenNoPlatformFilter
    \/ GenPlatformFilterRaise
    \/ GenPlatformFilter
    \/ ConvertEntry
    \/ NextFilter
    \/ ConvertOpen
    \/ ConvertOpenRaise
    \/ EmitSkipShort
    \/ EmitSkipException
    \/ EmitSkipEmpty
    \/ EmitScroll
    \/ EmitScrollSkipped
    \/ EmitBottom
    \/ EmitTop
    \/ EmitOther
    \/ ConvertClose
    \/ GenFindSubtitle
    \/ GenNoSubtitle
    \/ GenExtractRaise
    \/ GenExtract
    \/ GenExtractNothing
    \/ GenSkipMerge
    \/ GenMerge
    \/ GenMergeFails
    \/ GenReturn
    \/ GenExcept

----------------------------------------------------------------------------
(* The calls danmu_generator is tried on *)

\* longest answer of the provider
MaxGenLen == 2

\* the well-formed records of the provider: a scrolling, a top, a bottom and
\* another position code, and an empty text, from BiliBili or not
GenShapes == {<<1, 1>>, <<5, 1>>, <<4, 2>>, <<6, 2>>, <<1, 0>>}

GenComments(id) ==
    {[id |-> id, p |-> "ok", t |-> t, pos |-> shape[1], m |-> shape[2],
      user |-> user] :
        t \in {0, 1}, shape \in GenShapes, user \in {"bili", "other"}}
    \cup {[id |-> id, p |-> p, t |-> 1, pos |-> 1, m |-> 1, user |-> "bili"] :
        p \in {"nop", "short", "three", "badoffset", "badpos", "badcolor"}}

\* every answer of at most MaxGenLen records, in any order
GenLists ==
    UNION {{s \in [1..n -> UNION {GenComments(k) : k \in 1..n}] :
               \A k \in 1..n : s[k].id = k} : n \in 0..MaxGenLen}

InitGen ==
    /\ provided \in GenLists
    /\ comments = <<>>
    /\ max_comments \in {1, MaxGenLen}
    /\ height \in {150, 190}
    /\ onlyFromBili \in BOOLEAN
    /\ caller = "danmu_generator"
    /\ directory = <<>>
    /\ pc = "gen_id"
    /\ InitLocals

SpecGen == InitGen /\ [][NextGen]_vars

----------------------------------------------------------------------------
(* The directories the subtitle lookup and the merge are tried on *)

\* most Style: lines of a secondary file
MaxStyles == 2

\* the Style: lines: a definition of font size 18, one of fewer than three
\* fields, one whose font size is not a number
StyleChoices == {Line("style", 18), Line("style_short", 0), Line("style_bad", 0)}

StyleSeqs == UNION {[1..n -> StyleChoices] : n \in 0..MaxStyles}

\* the lines before the style section: no PlayResX, or 1920, 384 or 0
InfoSections ==
    {<<Line("info", 0)>>} \cup
    {<<Line("info", 0), Line("playres", x)>> : x \in {1920, 384, 0}}

\* the style section: none, or the header with or without its Format line
StylesSections ==
    {<<>>}
    \cup {<<Line("styles_header", 0), Line("style_format", 0)>> \o s : s \in StyleSeqs}
    \cup {<<Line("styles_header", 0)>> \o s : s \in StyleSeqs}

\* the event section: none, or the header, with or without its Format line,
\* a Dialogue line and an empty last line
EventsSections ==
    {<<>>} \cup
    {<<Line("events_header", 0)>> \o f \o d \o t :
        f \in {<<>>, <<Line("events_format", 0)>>},
        d \in {<<>>, <<Line("dialogue", 1)>>, <<Line("dialogue_style", 1)>>},
        t \in {<<>>, <<Line("blank", 0)>>}}

Secondaries ==
    {a \o b \o c : a \in InfoSections, b \in StylesSections, c \in EventsSections}

\* the files find_subtitle_file accepts
Companions ==
    {File("video.zh", ext, TRUE, c) : ext \in {"ass", "ssa"}, c \in Secondaries}
    \cup {File("video.zh", "srt", TRUE, <<Line("info", 0), Line("blank", 0)>>),
          File("video.zh", "ass", FALSE, ExtractedContent),
          File("video.zh.withDanmu", "ass", TRUE,
               combine_sub_ass(Sub1Content(<<>>),
                   File("video.zh", "ass", TRUE, ExtractedContent)).output)}

\* files it passes over: the danmu file of an earlier run, the subtitle of
\* another video, a file that is no subtitle
Decoys ==
    {File("video.danmu", "ass", TRUE, Sub1Content(<<>>)),
     File("other.zh", "ass", TRUE, ExtractedContent),
     File("video.zh", "txt", TRUE, <<Line("info", 0)>>)}

Directories ==
    {<<>>} \cup {<<d>> : d \in Decoys} \cup {<<f>> : f \in Companions}
    \cup {<<d, f>> : d \in Decoys, f \in Companions}

\* the runs of danmu_generator whose only comment is a scrolling or a bottom
\* comment, at the return of convert_comments_to_ass (line 583)
InitMerge ==
    /\ directory \in Directories
    /\ \E shape \in {<<1, 1>>, <<4, 2>>} :
          LET c == WellFormed(1, 0, shape)
          IN  /\ provided = <<c>>
              /\ comments = <<c>>
              /\ sorted_comments = <<c>>
              /\ filter_ret = <<c>>
              /\ scrolling_tracks =
                     IF c.pos = 1 THEN SetTrack(<<>>, 1, ScrollBusyUntil(c))
                     ELSE <<>>
              /\ dialogues =
                     IF c.pos = 1
                     THEN <<[id |-> c.id, style |-> "move", track |-> 1]>>
                     ELSE <<>>
              /\ allocations =
                     IF c.pos = 1
                     THEN <<[id |-> c.id, pos |-> 1, track |-> 1, free |-> TRUE]>>
                     ELSE <<>>
    /\ max_comments = 1
    /\ height = 190
    /\ max_tracks = MaxTracks(height)
    /\ top_tracks = <<>>
    /\ idx = 2
    /\ unique_comments = <<>> /\ filtered_comments = <<>> /\ i = 0
    /\ onlyFromBili = FALSE
    /\ caller = "danmu_generator"
    /\ danmu_file = "closed"
    /\ sub2 = 0 /\ merged = FALSE /\ raised_at = "none" /\ result = "pending"
    /\ FirstRun
    /\ FormatIdle
    /\ TrackIdle
    /\ PoolIdle
    /\ pc = "convert_done"

\* the names of the files of the directory
FileNames(dir) == {<<dir[k].name, dir[k].ext>> : k \in 1..Len(dir)}

\* os.walk lists a directory in the order the file system gives its entries:
\* any order of the same files
Listings(dir) ==
    {[k \in 1..Len(dir) |-> dir[f[k]]] : f \in Permutations(1..Len(dir))}

\* danmu_generator is called a second time on the video after the first call
\* has returned output_file; the provider's answer not having changed, lines
\* 552-581 write the same danmu file again and the run comes to line 583
GenRunAgain ==
    /\ pc = "returned" /\ result = "output_file"
    /\ runs = 1
    /\ runs' = 2
    /\ files_once' = FileNames(directory)
    /\ directory' \in Listings(directory)
    /\ sub2' = 0
    /\ merged' = FALSE
    /\ result' = "pending"
    /\ pc' = "convert_done"
    /\ UNCHANGED <<formatVars, trackVars, poolVars, inputs, filterVars, emitVars,
                   danmu_file, caller, provided, onlyFromBili, raised_at>>

\* lines 584-598
NextMerge ==
    \/ GenRunAgain
    \/ GenFindSubtitle
    \/ GenNoSubtitle
    \/ GenExtractRaise
    \/ GenExtract
    \/ GenExtractNothing
    \/ GenSkipMerge
    \/ GenMerge
    \/ GenMergeFails
    \/ GenReturn
    \/ GenExcept

SpecMerge == InitMerge /\ [][NextMerge]_vars

----------------------------------------------------------------------------
(* convert_timestamp (lines 288-293) and color_hex (line 387) *)

DigitChars == <<"0", "1", "2", "3", "4", "5", "6", "7", "8", "9">>

HexChars == DigitChars \o <<"A", "B", "C", "D", "E", "F">>

\* format(n, 'd') for n >= 0
RECURSIVE Decimal(_)
Decimal(n) ==
    IF n < 10 THEN <<DigitChars[n + 1]>>
    ELSE Append(Decimal(n \div 10), DigitChars[(n % 10) + 1])

\* format(n, '02d') for n >= 0
Decimal02(n) == IF n < 10 THEN <<"0">> \o Decimal(n) ELSE Decimal(n)

\* format(n, 'X') for n >= 0
RECURSIVE UpperHex(_)
UpperHex(n) ==
    IF n < 16 THEN <<HexChars[n + 1]>>
    ELSE Append(UpperHex(n \div 16), HexChars[(n % 16) + 1])

\* zeros in front up to the width
RECURSIVE ZeroPad(_, _)
ZeroPad(s, w) == IF Len(s) >= w THEN s ELSE ZeroPad(<<"0">> \o s, w)

\* line 289: round(timestamp * 100.0) for a time of ms milliseconds.  A time
\* half-way between two centiseconds has no exact float, and the product
\* rounds to either neighbour
Rounded(ms) ==
    IF ms % 10 < 5 THEN {ms \div 10}
    ELSE IF ms % 10 > 5 THEN {ms \div 10 + 1}
    ELSE {ms \div 10, ms \div 10 + 1}

\* convert_timestamp with the hours taken modulo 24
convert_timestamp_hours_of_day(c) ==
    LET hour == (c \div 360000) % 24
        minute == (c % 360000) \div 6000
        second == ((c % 360000) % 6000) \div 100
        centsecond == ((c % 360000) % 6000) % 100
    IN  Decimal(hour) \o <<":">> \o Decimal02(minute) \o <<":">>
            \o Decimal02(second) \o <<".">> \o Decimal02(centsecond)

\* lines 290-293: the three divmod and the f-string, for c centiseconds
convert_timestamp(c) ==
    LET hour == c \div 360000
        minute == (c % 360000) \div 6000
        second == ((c % 360000) % 6000) \div 100
        centsecond == ((c % 360000) % 6000) % 100
    IN  Decimal(hour) \o <<":">> \o Decimal02(minute) \o <<":">>
            \o Decimal02(second) \o <<".">> \o Decimal02(centsecond)

\* line 387: f'&H{color & 0xFFFFFF:06X}'
ColorHex(c) == <<"&", "H">> \o ZeroPad(UpperHex(c % (2 ^ 24)), 6)

\* lines 289, 379: start_time = convert_timestamp(timeline), the rounding
ConvertTimestampRound ==
    /\ pc = "format"
    /\ rounded' \in Rounded(timestamp)
    /\ pc' = "format_divmod"
    /\ UNCHANGED <<inputs, filterVars, emitVars, danmu_file, genVars, trackVars,
                   poolVars, rerunVars, timestamp,
                   start_time, color, color_hex>>

\* lines 290-293: the string
ConvertTimestamp ==
    /\ pc = "format_divmod"
    /\ start_time' = convert_timestamp(rounded)
    /\ pc' = "format_color"
    /\ UNCHANGED <<inputs, filterVars, emitVars, danmu_file, genVars, trackVars,
                   poolVars, rerunVars, timestamp,
                   rounded, color, color_hex>>

\* line 387
FormatColor ==
    /\ pc = "format_color"
    /\ color_hex' = ColorHex(color)
    /\ pc' = "format_done"
    /\ UNCHANGED <<inputs, filterVars, emitVars, danmu_file, genVars, trackVars,
                   poolVars, rerunVars, timestamp,
                   rounded, start_time, color>>

NextFormat ==
    \/ ConvertTimestampRound
    \/ ConvertTimestamp
    \/ FormatColor

\* offsets in milliseconds: around the hour, the minute, the second and the
\* centisecond, up to 25 hours
Timestamps ==
    {h * 3600000 + mi * 60000 + s * 1000 + x :
        h \in {0, 1, 25}, mi \in {0, 1, 59}, s \in {0, 1, 59},
        x \in {0, 4, 5, 10, 994, 995, 999}}

\* colors: black, blue, green, red, white, 0x123456, one above 24 bits and a
\* negative one
Colors == {0, 255, 65280, 16711680, 16777215, 1193046, 16777471, -1}

\* one comment being formatted
InitFormat ==
    /\ timestamp \in Timestamps
    /\ color \in Colors
    /\ rounded = 0 /\ start_time = <<>> /\ color_hex = <<>>
    /\ comments = <<>> /\ max_comments = 1 /\ height = 1080
    /\ caller = "" /\ provided = <<>> /\ onlyFromBili = FALSE
    /\ directory = <<>>
    /\ danmu_file = "absent"
    /\ sub2 = 0 /\ merged = FALSE /\ raised_at = "none" /\ result = "pending"
    /\ max_tracks = 0 /\ scrolling_tracks = <<>> /\ top_tracks = <<>>
    /\ idx = 0 /\ dialogues = <<>> /\ allocations = <<>>
    /\ sorted_comments = <<>> /\ unique_comments = <<>>
    /\ filtered_comments = <<>> /\ i = 0 /\ filter_ret = <<>>
    /\ FirstRun
    /\ TrackIdle
    /\ PoolIdle
    /\ pc = "format"

SpecFormat == InitFormat /\ [][NextFormat]_vars

----------------------------------------------------------------------------
(* The worker threads of the plugin, src/plugins.v2/danmu/__init__.py:       *)
(*   Danmu.generate_danmu_global         (lines 554-591)                    *)
(*   Danmu.generate_danmu_after_transfer (lines 593-637)                    *)
(*   Danmu.update_emby_watching_danmu    (lines 742-886)                    *)
(* Every thread runs Danmu.generate_danmu (lines 519-552) on one video.  A  *)
(* thread is "running" from thread.start() until generate_danmu returns,    *)
(* then "finished", and "joined" once a join() on it has returned.          *)

\* largest cap tried (the code's cap is 10)
MaxCap == 2
\* most videos of a scrape, and most episodes of an Emby update
MaxVideos == 2
\* most TransferComplete events
MaxEvents == 1

\* the state of every thread changed to `status` at place k
SetStatus(started, k, status) == [started EXCEPT ![k] = status]

\* the rest of an operation: everything outside the rosters is left alone
PipelineUnchanged ==
    UNCHANGED <<inputs, pc, filterVars, emitVars, danmu_file, genVars,
                formatVars, trackVars, rerunVars, max_threads>>

GlobalUnchanged ==
    UNCHANGED <<global_pc, global_files, threading_list, global_started, global_k>>

EmbyUnchanged ==
    UNCHANGED <<emby_pc, emby_episodes, threads, emby_started, emby_k>>

TransferUnchanged ==
    UNCHANGED <<transfer_events, transfer_started, transfer_target>>

\* lines 575-577: the roster is full: threading_list[0].join() returns once
\* the oldest thread has finished, then threading_list.pop(0)
GlobalDrain ==
    /\ global_pc = "walk" /\ global_files > 0
    /\ Len(threading_list) >= max_threads
    /\ global_started[Head(threading_list)] = "finished"
    /\ global_started' = SetStatus(global_started, Head(threading_list), "joined")
    /\ threading_list' = Tail(threading_list)
    /\ global_pc' = "start"
    /\ UNCHANGED <<global_files, global_k>>
    /\ PipelineUnchanged /\ EmbyUnchanged /\ TransferUnchanged

\* lines 575, 579-586: thread.start() and threading_list.append(thread)
GlobalStart ==
    /\ \/ global_pc = "start"
       \/ /\ global_pc = "walk" /\ global_files > 0
          /\ Len(threading_list) < max_threads
    /\ global_started' = Append(global_started, "running")
    /\ threading_list' = Append(threading_list, Len(global_started) + 1)
    /\ global_files' = global_files - 1
    /\ global_pc' = "walk"
    /\ UNCHANGED global_k
    /\ PipelineUnchanged /\ EmbyUnchanged /\ TransferUnchanged

\* lines 565-588: the walk is over, the final join loop starts
GlobalWalkDone ==
    /\ global_pc = "walk" /\ global_files = 0
    /\ global_k' = 1
    /\ global_pc' = "join"
    /\ UNCHANGED <<global_files, threading_list, global_started>>
    /\ PipelineUnchanged /\ EmbyUnchanged /\ TransferUnchanged

\* lines 588-589: thread.join() for the next thread of threading_list
GlobalJoin ==
    /\ global_pc = "join" /\ global_k <= Len(threading_list)
    /\ global_started[threading_list[global_k]] = "finished"
    /\ global_started' =
           SetStatus(global_started, threading_list[global_k], "joined")
    /\ global_k' = global_k + 1
    /\ UNCHANGED <<global_pc, global_files, threading_list>>
    /\ PipelineUnchanged /\ EmbyUnchanged /\ TransferUnchanged

\* line 591: generate_danmu_global returns
GlobalReturn ==
    /\ global_pc = "join" /\ global_k > Len(threading_list)
    /\ global_pc' = "done"
    /\ UNCHANGED <<global_files, threading_list, global_started, global_k>>
    /\ PipelineUnchanged /\ EmbyUnchanged /\ TransferUnchanged

\* EmbyStart draining only when the roster is longer than the cap
EmbyStartDrainLate ==
    /\ emby_pc = "walk" /\ emby_episodes > 0
    /\ emby_started' = Append(emby_started, "running")
    /\ threads' = Append(threads, Len(emby_started) + 1)
    /\ emby_episodes' = emby_episodes - 1
    /\ emby_pc' = IF Len(threads') > max_threads THEN "drain" ELSE "walk"
    /\ UNCHANGED emby_k
    /\ PipelineUnchanged /\ GlobalUnchanged /\ TransferUnchanged

\* lines 863-873: thread.start(), threads.append(thread), then the test of
\* the roster against the cap
EmbyStart ==
    /\ emby_pc = "walk" /\ emby_episodes > 0
    /\ emby_started' = Append(emby_started, "running")
    /\ threads' = Append(threads, Len(emby_started) + 1)
    /\ emby_episodes' = emby_episodes - 1
    /\ emby_pc' = IF Len(threads') >= max_threads THEN "drain" ELSE "walk"
    /\ UNCHANGED emby_k
    /\ PipelineUnchanged /\ GlobalUnchanged /\ TransferUnchanged

\* EmbyDrain taking the oldest thread off the roster without joining it
EmbyDrainWithoutJoin ==
    /\ emby_pc = "drain"
    /\ threads' = Tail(threads)
    /\ emby_pc' = "walk"
    /\ UNCHANGED <<emby_episodes, emby_started, emby_k>>
    /\ PipelineUnchanged /\ GlobalUnchanged /\ TransferUnchanged

\* lines 873-877: threads[0].join() returns once the oldest thread has
\* finished, then threads.pop(0)
EmbyDrain ==
    /\ emby_pc = "drain"
    /\ emby_started[Head(threads)] = "finished"
    /\ emby_started' = SetStatus(emby_started, Head(threads), "joined")
    /\ threads' = Tail(threads)
    /\ emby_pc' = "walk"
    /\ UNCHANGED <<emby_episodes, emby_k>>
    /\ PipelineUnchanged /\ GlobalUnchanged /\ TransferUnchanged

\* lines 779-880: the loops are over, the final join loop starts
EmbyWalkDone ==
    /\ emby_pc = "walk" /\ emby_episodes = 0
    /\ emby_k' = 1
    /\ emby_pc' = "join"
    /\ UNCHANGED <<emby_episodes, threads, emby_started>>
    /\ PipelineUnchanged /\ GlobalUnchanged /\ TransferUnchanged

\* lines 882-883: thread.join() for the next thread of threads
EmbyJoin ==
    /\ emby_pc = "join" /\ emby_k <= Len(threads)
    /\ emby_started[threads[emby_k]] = "finished"
    /\ emby_started' = SetStatus(emby_started, threads[emby_k], "joined")
    /\ emby_k' = emby_k + 1
    /\ UNCHANGED <<emby_pc, emby_episodes, threads>>
    /\ PipelineUnchanged /\ GlobalUnchanged /\ TransferUnchanged

\* line 886: update_emby_watching_danmu returns
EmbyReturn ==
    /\ emby_pc = "join" /\ emby_k > Len(threads)
    /\ emby_pc' = "done"
    /\ UNCHANGED <<emby_episodes, threads, emby_started, emby_k>>
    /\ PipelineUnchanged /\ GlobalUnchanged /\ TransferUnchanged

\* lines 622-635: a TransferComplete event with a target file: thread.start()
TransferStart ==
    /\ transfer_events > 0
    /\ transfer_started' = Append(transfer_started, "running")
    /\ \E target_file \in 1..MaxVideos :
           transfer_target' = Append(transfer_target, target_file)
    /\ transfer_events' = transfer_events - 1
    /\ PipelineUnchanged /\ GlobalUnchanged /\ EmbyUnchanged

\* lines 598-599, 626-628: the plugin is disabled or the event names no file
TransferNoFile ==
    /\ transfer_events > 0
    /\ transfer_events' = transfer_events - 1
    /\ UNCHANGED <<transfer_started, transfer_target>>
    /\ PipelineUnchanged /\ GlobalUnchanged /\ EmbyUnchanged

\* lines 519-552: generate_danmu returns in a thread of the global scrape
GlobalWorkerReturns ==
    /\ \E k \in 1..Len(global_started) :
          /\ global_started[k] = "running"
          /\ global_started' = SetStatus(global_started, k, "finished")
    /\ UNCHANGED <<global_pc, global_files, threading_list, global_k>>
    /\ PipelineUnchanged /\ EmbyUnchanged /\ TransferUnchanged

\* lines 519-552: generate_danmu returns in a thread of the Emby update
EmbyWorkerReturns ==
    /\ \E k \in 1..Len(emby_started) :
          /\ emby_started[k] = "running"
          /\ emby_started' = SetStatus(emby_started, k, "finished")
    /\ UNCHANGED <<emby_pc, emby_episodes, threads, emby_k>>
    /\ PipelineUnchanged /\ GlobalUnchanged /\ TransferUnchanged

\* lines 519-552: generate_danmu returns in a thread of a transfer event
TransferWorkerReturns ==
    /\ \E k \in 1..Len(transfer_started) :
          /\ transfer_started[k] = "running"
          /\ transfer_started' = SetStatus(transfer_started, k, "finished")
    /\ UNCHANGED <<transfer_events, transfer_target>>
    /\ PipelineUnchanged /\ GlobalUnchanged /\ EmbyUnchanged

\* the video the k-th thread of a roster was started on.  The scrape walks
\* the video files 1, 2, ... of the library (lines 572-579) and the Emby
\* update the episodes 1, 2, ... of the series kept there (lines 805, 863);
\* a transfer event names its file itself (line 624)
Target(roster, k) == IF roster = "transfer" THEN transfer_target[k] ELSE k

\* danmu_generator.py, line 572: <video-stem>.danmu.ass; lines 583, 526: the
\* merged file of the subtitle file found for the video
OutputPaths(video) == {<<video, "danmu.ass">>, <<video, "zh.withDanmu.ass">>}

NextPool ==
    \/ GlobalDrain
    \/ GlobalStart
    \/ GlobalWalkDone
    \/ GlobalJoin
    \/ GlobalReturn
    \/ EmbyStart
    \/ EmbyDrain
    \/ EmbyWalkDone
    \/ EmbyJoin
    \/ EmbyReturn
    \/ TransferStart
    \/ TransferNoFile
    \/ GlobalWorkerReturns
    \/ EmbyWorkerReturns
    \/ TransferWorkerReturns

\* one global scrape, one Emby update and some transfer events, all under way
\* at once; no pipeline call is followed inside
InitPool ==
    /\ max_threads \in 1..MaxCap
    /\ global_pc = "walk" /\ global_files \in 0..MaxVideos
    /\ threading_list = <<>> /\ global_started = <<>> /\ global_k = 0
    /\ emby_pc = "walk" /\ emby_episodes \in 0..MaxVideos
    /\ threads = <<>> /\ emby_started = <<>> /\ emby_k = 0
    /\ transfer_events \in 0..MaxEvents /\ transfer_started = <<>>
    /\ transfer_target = <<>>
    /\ comments = <<>> /\ max_comments = 1 /\ height = 1080
    /\ caller = "" /\ provided = <<>> /\ onlyFromBili = FALSE
    /\ directory = <<>>
    /\ danmu_file = "absent"
    /\ sub2 = 0 /\ merged = FALSE /\ raised_at = "none" /\ result = "pending"
    /\ max_tracks = 0 /\ scrolling_tracks = <<>> /\ top_tracks = <<>>
    /\ idx = 0 /\ dialogues = <<>> /\ allocations = <<>>
    /\ sorted_comments = <<>> /\ unique_comments = <<>>
    /\ filtered_comments = <<>> /\ i = 0 /\ filter_ret = <<>>
    /\ FirstRun
    /\ FormatIdle
    /\ TrackIdle
    /\ pc = "pool"

SpecPool == InitPool /\ [][NextPool]_vars

\* the steps of generate_danmu_global
GlobalStep ==
    GlobalDrain \/ GlobalStart \/ GlobalWalkDone \/ GlobalJoin \/ GlobalReturn

\* the steps of update_emby_watching_danmu
EmbyStep ==
    EmbyStart \/ EmbyDrain \/ EmbyWalkDone \/ EmbyJoin \/ EmbyReturn

\* the same, with the two handlers going on whenever they can (each runs in
\* a thread of its own) and every call of generate_danmu returning
SpecPoolLive ==
    /\ InitPool /\ [][NextPool]_vars
    /\ WF_vars(GlobalStep) /\ WF_vars(EmbyStep)
    /\ WF_vars(GlobalWorkerReturns) /\ WF_vars(EmbyWorkerReturns)

----------------------------------------------------------------------------
(* The calls find_non_overlapping_track is tried on *)

\* most lanes of a call
MaxLanes == 3

\* the times (seconds) a lane may be busy until: 3 and 100, 103 and 110, more
\* than 100 seconds after the calls
BusyUntil == {3, 100, 103, 110}

\* the times of the calls
CallTimes == {0, 3}

\* the lane maps of n lanes: the emitter takes lane k + 1 only when the lanes
\* 1..k are in the map, so the keys of a map are 1..n
LaneMaps(n) == [1..n -> BusyUntil]

\* line 391 or 406: the call
TrackCall ==
    /\ pc = "track"
    /\ track_ret' = find_non_overlapping_track(scrolling_tracks, call_time, max_tracks)
    /\ pc' = "track_done"
    /\ UNCHANGED <<inputs, filterVars, emitVars, danmu_file, genVars, formatVars,
                   poolVars, rerunVars, call_time>>

NextTrack == TrackCall

\* a call with a lane map of at most max_tracks lanes (of lane 1 alone when
\* max_tracks is 0)
InitTrack ==
    /\ max_tracks \in 0..MaxLanes
    /\ scrolling_tracks \in UNION {LaneMaps(n) : n \in 0..Max(max_tracks, 1)}
    /\ call_time \in CallTimes
    /\ track_ret = 0
    /\ comments = <<>> /\ max_comments = 1 /\ height = 1080
    /\ caller = "" /\ provided = <<>> /\ onlyFromBili = FALSE
    /\ directory = <<>>
    /\ danmu_file = "open"
    /\ sub2 = 0 /\ merged = FALSE /\ raised_at = "none" /\ result = "pending"
    /\ top_tracks = <<>>
    /\ idx = 0 /\ dialogues = <<>> /\ allocations = <<>>
    /\ sorted_comments = <<>> /\ unique_comments = <<>>
    /\ filtered_comments = <<>> /\ i = 0 /\ filter_ret = <<>>
    /\ FirstRun
    /\ FormatIdle
    /\ PoolIdle
    /\ pc = "track"

SpecTrack == InitTrack /\ [][NextTrack]_vars

----------------------------------------------------------------------------
(* Properties of filter_comments, stated for SpecFilter *)

FilterDone == pc = "filter_done"
OverBudget == Len(comments) > max_comments
SamplingRan == pc = "filter_done" /\ filter_ret = filtered_comments /\ i = time_intervals
NoRepeatedText(s) == \A a, b \in 1..Len(s) : a # b => s[a].m # s[b].m
SameText(s) == \A a, b \in 1..Len(s) : s[a].m = s[b].m
\* the smallest offset among the comments of s whose text is m
EarliestOffset(s, m) ==
    CHOOSE t \in {s[k].t : k \in {j \in 1..Len(s) : s[j].m = m}} :
        \A k \in 1..Len(s) : s[k].m = m => t <= s[k].t

C4_UniqueTextsEarliestKept ==
    (FilterDone /\ OverBudget) =>
        /\ NoRepeatedText(filter_ret)
        /\ TextsOf(unique_comments) = TextsOf(comments)
        /\ \A k \in 1..Len(unique_comments) :
              unique_comments[k].t = EarliestOffset(comments, unique_comments[k].m)

\* C4 witness: a repeated text whose later occurrence in the input list is the
\* earlier one in time, and de-duplication removed one of them
C4_Witness ==
    /\ FilterDone /\ OverBudget
    /\ Len(unique_comments) < Len(comments)
    /\ \E a, b \in 1..Len(comments) :
          a < b /\ comments[a].m = comments[b].m /\ comments[b].t < comments[a].t

\* C5 as stated: the list filter_comments returns is in ascending order of
\* offset, also when the interval sampling ran.
C5_ReturnedAscending == FilterDone => IsAscending(filter_ret)

C7_SameTextCollapsesWithinBudget ==
    (FilterDone /\ ~OverBudget /\ Len(comments) >= 1 /\ SameText(comments)) =>
        Len(filter_ret) = 1

\* C7 amended: when all comments have the same text, filter_comments returns
\* all of them if their number is within the budget (de-duplication does not
\* run), and exactly one only if their number exceeds the budget.
C7_SameTextKeptWithinBudget ==
    (FilterDone /\ Len(comments) >= 1 /\ SameText(comments)) =>
        /\ ~OverBudget => Len(filter_ret) = Len(comments)
        /\ OverBudget => Len(filter_ret) = 1

\* C7 witness: several comments of one text, within the budget, all returned
C7_Witness ==
    /\ FilterDone /\ ~OverBudget
    /\ Len(comments) >= 2 /\ SameText(comments)
    /\ Len(filter_ret) = Len(comments)


----------------------------------------------------------------------------
(* Properties of convert_comments_to_ass, stated for SpecEmit *)

\* the record of the input list with this id
CommentOf(id) == CHOOSE c \in Range(comments) : c.id = id

\* the allocations for scrolling comments, by their place in the history
ScrollAllocations == {a \in 1..Len(allocations) : allocations[a].pos = 1}

\* [offset, offset + leave_time) of two allocated comments overlap
Overlap(a, b) ==
    LET ca == CommentOf(allocations[a].id)
        cb == CommentOf(allocations[b].id)
    IN  ca.t < cb.t + leave_time(cb.m) /\ cb.t < ca.t + leave_time(ca.m)

\* every scrolling allocation up to the b-th found a free lane
AllFreeUpTo(b) ==
    \A a \in ScrollAllocations : a <= b => allocations[a].free

\* C1 as stated: two scrolling comments of one run whose intervals
\* [offset, offset + leave_time) overlap are assigned different lanes, for
\* every max_lanes >= 1 and however many lanes are busy.
C1_OverlapDifferentLanes ==
    max_tracks >= 1 =>
        \A a, b \in ScrollAllocations :
            (a < b /\ Overlap(a, b)) =>
                allocations[a].track # allocations[b].track

\* C1 amended: two scrolling comments of one run whose intervals overlap are
\* assigned different lanes provided every scrolling allocation of the run up
\* to and including the later of the two found a free lane.
C1_OverlapDifferentLanesWhileFree ==
    max_tracks >= 1 =>
        \A a, b \in ScrollAllocations :
            (a < b /\ Overlap(a, b) /\ AllFreeUpTo(b)) =>
                allocations[a].track # allocations[b].track

\* C1 witness: two overlapping scrolling comments, both given a free lane
C1_Witness ==
    /\ max_tracks >= 1
    /\ \E a, b \in ScrollAllocations :
          /\ a < b /\ Overlap(a, b) /\ AllFreeUpTo(b)
          /\ allocations[a].track # allocations[b].track

\* C2 as stated: every lane find_non_overlapping_track returns, and so every
\* key of the scroll and top lane maps, lies in 1..max_lanes, for every
\* max_lanes the emitter computes.
C2_TrackInRange ==
    pc # "convert" =>
        /\ \A a \in 1..Len(allocations) : allocations[a].track \in 1..max_tracks
        /\ DOMAIN scrolling_tracks \subseteq 1..max_tracks
        /\ DOMAIN top_tracks \subseteq 1..max_tracks

NoBottomDialogue ==
    \A k \in 1..Len(dialogues) : CommentOf(dialogues[k].id).pos # 4

AtBottomComment ==
    /\ pc = "emit" /\ idx <= Len(filter_ret)
    /\ filter_ret[idx].p = "ok" /\ filter_ret[idx].pos = 4

\* C8: no comment with position code 4 produces a Dialogue line, and the step
\* that handles such a comment leaves the scroll and top lane maps unchanged.
C8_BottomNeverEmitted ==
    /\ []NoBottomDialogue
    /\ [][AtBottomComment =>
            (scrolling_tracks' = scrolling_tracks /\ top_tracks' = top_tracks
             /\ dialogues' = dialogues)]_vars

\* C8 witness: a bottom comment with text was handled after a lane was taken
C8_Witness ==
    /\ pc = "emit" /\ idx > 1
    /\ Parsed(filter_ret[idx - 1]) /\ filter_ret[idx - 1].pos = 4
    /\ scrolling_tracks # <<>>
    /\ dialogues # <<>>

\* C9 as stated: a malformed record never aborts the batch; every well-formed
\* comment is still emitted and only the malformed record is skipped.
C9_MalformedNeverAborts ==
    /\ pc # "raised"
    /\ (pc = "convert_done" /\ Len(comments) <= max_comments) =>
          \A c \in Range(comments) :
              (Parsed(c) /\ c.pos \notin {1, 4}) =>
                  \E k \in 1..Len(dialogues) : dialogues[k].id = c.id

----------------------------------------------------------------------------
(* Properties of the subtitle lookup and the merge, stated for SpecMerge *)

\* the file danmu_generator passes to combine_sub_ass as sub2
Secondary == directory[sub2]

HasEvents(file) == \E k \in 1..Len(file.content) : file.content[k].kind = "events_header"

\* the secondary file has no [Events] section or is not an .ass/.ssa file
NoEventsOrNotAss(file) == file.ext \notin {"ass", "ssa"} \/ ~HasEvents(file)

AtMerge == pc = "gen_merge"

\* danmu_generator returned after it called combine_sub_ass
ReturnedAfterMerge == pc = "returned" /\ raised_at = "none" /\ sub2 # 0

\* C11: when the secondary file has no [Events] section or its extension is
\* not .ass/.ssa, combine_sub_ass reports failure and the step creates or
\* modifies no file (the danmu file and the directory are as before, no
\* .withDanmu.ass appears), and danmu_generator returns the danmu file's path.
C11_FailedMergeWritesNothing ==
    /\ [][(AtMerge /\ NoEventsOrNotAss(Secondary)) =>
            /\ merged' = FALSE
            /\ directory' = directory
            /\ danmu_file' = danmu_file
            /\ dialogues' = dialogues]_vars
    /\ []((ReturnedAfterMerge /\ NoEventsOrNotAss(Secondary)) =>
            result = "output_file")

\* C11 witness: an .ass file with a Format line and no [Events] was the
\* secondary, the merge failed and the call returned the danmu file's path
C11_Witness ==
    /\ ReturnedAfterMerge
    /\ ~merged
    /\ result = "output_file"
    /\ Secondary.ext = "ass" /\ Secondary.decodes
    /\ ~HasEvents(Secondary)
    /\ \E k \in 1..Len(Secondary.content) : Secondary.content[k].kind \in FormatMatches

AfterMerge == pc \in {"gen_return", "returned"} /\ raised_at = "none" /\ sub2 # 0

HasStyleFormat(file) ==
    \E k \in 1..Len(file.content) : file.content[k].kind = "style_format"

\* the files named <secondary-stem>.withDanmu.ass
MergedFiles ==
    {k \in 1..Len(directory) :
        directory[k].name = WithDanmu(Secondary.name) /\ directory[k].ext = "ass"}

\* C12 as stated: when the secondary .ass/.ssa file has no Format line in its
\* style section, combine_sub_ass returns failure and writes no merged file,
\* also when the file has an [Events] section with a Format line of its own.
C12_NoStyleFormatFails ==
    (AfterMerge /\ Secondary.ext \in {"ass", "ssa"} /\ ~HasStyleFormat(Secondary)) =>
        /\ ~merged
        /\ MergedFiles = {}

IsStyleDefinition(l) == l.kind \in {"style", "style_short", "style_bad"}

NotBlank(l) == l.kind # "blank"

\* the merged text the claim describes: the danmu file, the style section
\* made of the secondary's style Format line and its Style definitions with
\* the font size rescaled, then what follows the secondary's [Events] header
DescribedMerge(file) ==
    LET content == file.content
        definitions == SelectSeq(content, IsStyleDefinition)
        events_start == FirstLine(content, {"events_header"})
    IN  sub1_content
        \o <<Line("styles_header", 0), Line("style_format", 0)>>
        \o [k \in 1..Len(definitions) |->
               Rescale(definitions[k], PlayResX(sub1_content), PlayResX(content))]
        \o <<Line("events_header", 0)>>
        \o SubSeq(content, events_start + 1, Len(content))

\* C13 as stated: after every successful merge <secondary-stem>.withDanmu.ass
\* holds, in this order, the danmu file's content, a style section made of
\* exactly the secondary's style Format line and its Style definitions (font
\* size rescaled), and the secondary's event section as it was; empty lines
\* are not compared.
C13_MergedFileLayout ==
    (AfterMerge /\ merged) =>
        /\ HasStyleFormat(Secondary)
        /\ \A k \in MergedFiles :
              SelectSeq(directory[k].content, NotBlank)
                  = SelectSeq(DescribedMerge(Secondary), NotBlank)

----------------------------------------------------------------------------
(* Properties of the formatting steps, stated for SpecFormat *)

\* the places of the character ch in the string s
PlacesOf(s, ch) == {k \in 1..Len(s) : s[k] = ch}

\* the number a string of decimal digits denotes
RECURSIVE DecimalValue(_)
DecimalValue(s) ==
    IF s = <<>> THEN 0
    ELSE DecimalValue(SubSeq(s, 1, Len(s) - 1)) * 10
             + (CHOOSE d \in 0..9 : DigitChars[d + 1] = s[Len(s)])

\* the number a string of hexadecimal digits denotes
RECURSIVE HexValue(_)
HexValue(s) ==
    IF s = <<>> THEN 0
    ELSE HexValue(SubSeq(s, 1, Len(s) - 1)) * 16
             + (CHOOSE d \in 0..15 : HexChars[d + 1] = s[Len(s)])

\* s has the form H:MM:SS.CC, H of one digit or more
IsStamp(s) ==
    /\ Len(s) >= 10
    /\ PlacesOf(s, ":") = {Len(s) - 8, Len(s) - 5}
    /\ PlacesOf(s, ".") = {Len(s) - 2}

\* the four numbers of a string H:MM:SS.CC
StampFields(s) ==
    [H  |-> DecimalValue(SubSeq(s, 1, Len(s) - 9)),
     MM |-> DecimalValue(SubSeq(s, Len(s) - 7, Len(s) - 6)),
     SS |-> DecimalValue(SubSeq(s, Len(s) - 4, Len(s) - 3)),
     CC |-> DecimalValue(SubSeq(s, Len(s) - 1, Len(s)))]

Stamped == pc \in {"format_color", "format_done"}

\* the value with its red and blue bytes exchanged
SwapRedBlue(v) == (v % 256) * 65536 + ((v \div 256) % 256) * 256 + (v \div 65536)

\* C14 as stated: the color tag written for the color integer c is &H followed
\* by the six hexadecimal digits of c masked to 24 bits with its red and blue
\* bytes exchanged (0xFF0000 is written &H0000FF).
C14_ColorBytesSwapped ==
    pc = "format_done" =>
        /\ Len(color_hex) = 8
        /\ SubSeq(color_hex, 1, 2) = <<"&", "H">>
        /\ HexValue(SubSeq(color_hex, 3, 8)) = SwapRedBlue(color % (2 ^ 24))

\* C15: for a time rounded to c centiseconds, c >= 0, convert_timestamp
\* returns H:MM:SS.CC with H*360000 + MM*6000 + SS*100 + CC = c, MM and SS
\* below 60, CC below 100, and H not reduced modulo 24.
C15_TimestampDecomposition ==
    Stamped =>
        /\ IsStamp(start_time)
        /\ LET f == StampFields(start_time)
           IN  /\ f.H * 360000 + f.MM * 6000 + f.SS * 100 + f.CC = rounded
               /\ f.MM \in 0..59 /\ f.SS \in 0..59 /\ f.CC \in 0..99
               /\ f.H = rounded \div 360000

\* C15 witness: 25 hours is written 25:00:00.00
C15_Witness ==
    /\ Stamped
    /\ rounded = 25 * 360000
    /\ start_time = <<"2", "5", ":", "0", "0", ":", "0", "0", ".", "0", "0">>

----------------------------------------------------------------------------
(* Properties of the worker threads, stated for SpecPool *)

\* the threads of `started` in one of the states
ThreadsIn(started, states) == {k \in 1..Len(started) : started[k] \in states}

\* the threads an invocation has started and not yet joined
Unjoined(started) == Cardinality(ThreadsIn(started, {"running", "finished"}))

\* the pipeline runs that are executing
Running(started) == Cardinality(ThreadsIn(started, {"running"}))

\* C17: at every moment the threads generate_danmu_global has started and not
\* yet joined are at most _max_threads, and so are those of
\* update_emby_watching_danmu; while the roster holds _max_threads threads no
\* thread is started, and the roster only shrinks by a join of its oldest
\* entry, which is then removed.
C17_RosterWithinCap ==
    /\ [](Unjoined(global_started) <= max_threads)
    /\ [](Unjoined(emby_started) <= max_threads)
    /\ [](Len(threading_list) <= max_threads /\ Len(threads) <= max_threads)
    /\ [][Len(threading_list) >= max_threads =>
             Len(global_started') = Len(global_started)]_vars
    /\ [][Len(threads) >= max_threads =>
             Len(emby_started') = Len(emby_started)]_vars
    /\ [][threading_list' # threading_list =>
             \/ threading_list' = Append(threading_list, Len(global_started'))
             \/ /\ threading_list' = Tail(threading_list)
                /\ global_started[Head(threading_list)] = "finished"
                /\ global_started'[Head(threading_list)] = "joined"]_vars
    /\ [][threads' # threads =>
             \/ threads' = Append(threads, Len(emby_started'))
             \/ /\ threads' = Tail(threads)
                /\ emby_started[Head(threads)] = "finished"
                /\ emby_started'[Head(threads)] = "joined"]_vars

\* C17 witness: both rosters were full, their oldest thread was joined and
\* removed, and each holds _max_threads threads again
C17_Witness ==
    /\ ThreadsIn(global_started, {"joined"}) # {}
    /\ Len(threading_list) = max_threads
    /\ Unjoined(global_started) = max_threads
    /\ global_pc = "walk"
    /\ ThreadsIn(emby_started, {"joined"}) # {}
    /\ Len(threads) = max_threads
    /\ Unjoined(emby_started) = max_threads
    /\ emby_pc = "drain"

\* C18 as stated: the pipeline runs executing at one moment, those of the
\* global scrape, of the Emby update and of transfer events counted together,
\* are at most _max_threads.
C18_TotalRunsWithinCap ==
    Running(global_started) + Running(emby_started) + Running(transfer_started)
        <= max_threads

----------------------------------------------------------------------------
(* Properties of find_non_overlapping_track, stated for SpecTrack *)

\* the lanes of 1..max_tracks that are absent from the map or whose
\* busy_until is not after the call
FreeLanes ==
    {k \in 1..max_tracks :
        k \notin DOMAIN scrolling_tracks \/ scrolling_tracks[k] <= call_time}

\* busy_until - current_time of a lane of the map
Remaining(k) == scrolling_tracks[k] - call_time

\* the lanes whose remaining busy time exceeds the horizon of 100 seconds
BeyondHorizon == {k \in 1..max_tracks : Remaining(k) > last_time_remain}

TrackDone == pc = "track_done"

\* C19: when a lane of 1..max_lanes is free, find_non_overlapping_track
\* returns the lowest free lane, whatever the busy times of the other lanes.
C19_LowestFreeLane ==
    (TrackDone /\ FreeLanes # {}) =>
        /\ track_ret \in FreeLanes
        /\ \A k \in FreeLanes : track_ret <= k

\* C19 witness: lane 1 is busy, lane 2 is free, lane 3 is busy for more than
\* 100 seconds, and lane 2 is returned
C19_Witness ==
    /\ TrackDone
    /\ max_tracks = 3
    /\ FreeLanes = {2}
    /\ 3 \in BeyondHorizon
    /\ track_ret = 2

\* C20 as stated: when no lane is free, find_non_overlapping_track returns
\* the lane with the largest remaining busy time among the lanes whose
\* remaining time exceeds 100 seconds, and lane 1 when no lane exceeds it.
C20_LargestRemainingBeyondHorizon ==
    (TrackDone /\ FreeLanes = {}) =>
        IF BeyondHorizon = {} THEN track_ret = 1
        ELSE /\ track_ret \in BeyondHorizon
             /\ \A k \in BeyondHorizon : Remaining(track_ret) >= Remaining(k)

----------------------------------------------------------------------------
(* Properties of danmu_generator, stated for SpecGen *)

\* C10: every call of danmu_generator ends by returning None or the file
\* path; an exception raised in any stage is caught by danmu_generator and
\* turned into None, never propagated to the caller.
C10_ExceptionsBecomeNone ==
    /\ pc # "raised"
    /\ pc = "returned" => result \in {"None", "output_file"}
    /\ (pc = "returned" /\ raised_at # "none") => result = "None"
    /\ pc = "except" => raised_at # "none"

\* C10 witness: try_extract_sub raised after the danmu file was written, and
\* the call returned None
C10_Witness ==
    /\ pc = "returned"
    /\ raised_at = "gen_extract"
    /\ danmu_file = "closed"
    /\ result = "None"

\* the stage of danmu_generator a position of the code belongs to: 1 resolve
\* id, 2 fetch, 3 empty check and platform filter, 4 filter, 5 emit, 6 locate
\* the companion subtitle, 7 merge, 8 done
StageOf(p) ==
    CASE p = "gen_id" -> 1
      [] p \in {"gen_fetch", "gen_sort"} -> 2
      [] p = "gen_empty" -> 3
      [] p \in {"convert", "filter", "filter_unique", "filter_interval",
                "filter_done"} -> 4
      [] p = "emit" -> 5
      [] p \in {"convert_done", "gen_extract", "gen_find"} -> 6
      [] p = "gen_merge" -> 7
      [] OTHER -> 8

BeforeConvert == pc \in {"gen_id", "gen_fetch", "gen_sort", "gen_empty"}

NothingWritten == danmu_file = "absent" /\ directory = <<>> /\ ~merged

\* C16: a run of danmu_generator passes through its stages in the order
\* resolve id, fetch, empty check, platform filter, filter, emit, locate
\* subtitle, merge, done and never goes back to an earlier one; the merge is
\* attempted only when the danmu file is written and closed; a run that
\* resolves no id or fetches no comment ends without having written a file.
C16_StagesInOrder ==
    /\ [][StageOf(pc') >= StageOf(pc)]_vars
    /\ [](pc = "gen_merge" => danmu_file = "closed")
    /\ [](merged => danmu_file = "closed")
    /\ [](BeforeConvert => NothingWritten)
    /\ [][(BeforeConvert /\ pc' = "returned") =>
             (result' = "None" /\ NothingWritten')]_vars
    /\ []((Len(provided) = 0 /\ pc \notin {"except", "returned"}) => BeforeConvert)
    /\ []((Len(provided) = 0 /\ pc \in {"except", "returned"}) =>
             (result \in {"pending", "None"} /\ NothingWritten))

\* C16 witness: a run with the platform filter on went through every stage,
\* merged and returned
C16_Witness ==
    /\ pc = "returned"
    /\ onlyFromBili
    /\ Len(dialogues) >= 1
    /\ danmu_file = "closed"
    /\ merged
    /\ result = "output_file"

----------------------------------------------------------------------------
(* The number of lanes, the subtitle area and the lane maps *)

\* the locals of lines 339-348 are set
LanesComputed == pc \notin {"convert", "raised"} /\ caller = ""

\* (canvas_height - exclusion_zone_height) / (font_size * 0.8), rounded down
LanesQuotient == ((height - subtitle_area_height) * 10) \div (fontsize * 8)

\* C21: the number of lanes handed to find_non_overlapping_track is the
\* quotient (height - subtitle_area_height) / (fontsize * 0.8) rounded down,
\* and 1 when that is less than 1
C21_MaxLanesAtLeastOne ==
    LanesComputed => max_tracks = Max(1, LanesQuotient)

\* the calls of find_non_overlapping_track for scrolling comments that gave
\* a lane inside the subtitle area
DroppedScrolls ==
    {a \in 1..Len(allocations) :
        /\ allocations[a].pos = 1
        /\ (allocations[a].track - 1) * fontsize + 10 > height - subtitle_area_height}

\* C22: every scrolling Dialogue written lies at (lane - 1) * fontsize + 10,
\* which is not below height - subtitle_area_height; a scrolling comment whose
\* lane gives a larger position has no Dialogue and was given a lane only once
C22_ScrollKeptOutOfSubtitleArea ==
    /\ \A d \in 1..Len(dialogues) :
           dialogues[d].style = "move" =>
               (dialogues[d].track - 1) * fontsize + 10
                   <= height - subtitle_area_height
    /\ \A a \in DroppedScrolls :
           /\ \A d \in 1..Len(dialogues) : dialogues[d].id # allocations[a].id
           /\ \A b \in 1..Len(allocations) :
                  allocations[b].id = allocations[a].id => b = a

\* a run that dropped a scrolling comment on a lane below the first one and
\* wrote the comments before and after it
C22_Witness ==
    /\ pc = "convert_done"
    /\ \E a \in DroppedScrolls :
           /\ allocations[a].track > 1
           /\ \E d, e \in 1..Len(dialogues) :
                  dialogues[d].id < allocations[a].id
                      /\ allocations[a].id < dialogues[e].id

\* the loop of lines 363-416 has just handled the comment c
Handled(c) ==
    /\ pc = "emit" /\ idx <= Len(filter_ret)
    /\ idx' = idx + 1
    /\ c = filter_ret[idx]

\* exactly the entry of one lane of the map is set to busy_until
OneEntrySet(tracks, tracks_after, busy_until) ==
    \E k \in DOMAIN tracks_after :
        /\ DOMAIN tracks_after = DOMAIN tracks \cup {k}
        /\ tracks_after[k] = busy_until
        /\ \A j \in DOMAIN tracks : j # k => tracks_after[j] = tracks[j]

\* C23: a scrolling comment sets one entry of the scroll map to its offset
\* plus its leave time and leaves the top map alone; a top comment sets one
\* entry of the top map to its offset plus the duration and leaves the scroll
\* map alone; a bottom comment, a comment of another position code, one with
\* an empty text and a malformed one change neither map
C23_IndependentLaneMaps ==
    [][\A c \in Range(filter_ret) :
          Handled(c) =>
              IF Parsed(c) /\ c.pos = 1
              THEN /\ OneEntrySet(scrolling_tracks, scrolling_tracks',
                                  c.t + leave_time(c.m))
                   /\ top_tracks' = top_tracks
              ELSE IF Parsed(c) /\ c.pos = 5
              THEN /\ OneEntrySet(top_tracks, top_tracks', c.t + duration)
                   /\ scrolling_tracks' = scrolling_tracks
              ELSE /\ scrolling_tracks' = scrolling_tracks
                   /\ top_tracks' = top_tracks]_vars

\* a run that has handled a scrolling, a top and a bottom comment
C23_Witness ==
    /\ pc = "convert_done"
    /\ scrolling_tracks # <<>>
    /\ top_tracks # <<>>
    /\ \E k \in 1..Len(filter_ret) : Parsed(filter_ret[k]) /\ filter_ret[k].pos = 4

\* the loop has just dropped the scrolling comment c, which was given `lane`
DroppedOn(c, lane) ==
    /\ Handled(c)
    /\ Parsed(c) /\ c.pos = 1
    /\ dialogues' = dialogues
    /\ allocations' # allocations
    /\ lane = allocations'[Len(allocations')].track

\* C27: when a scrolling comment is dropped for the subtitle area, the scroll
\* map holds offset + leave time for the lane it was given
C27_DroppedScrollKeepsLaneBusy ==
    [][\A c \in Range(filter_ret) : \A lane \in 1..Max(1, max_tracks) :
          DroppedOn(c, lane) =>
              /\ lane \in DOMAIN scrolling_tracks'
              /\ scrolling_tracks'[lane] = c.t + leave_time(c.m)]_vars

\* a scrolling comment was dropped on one of several lanes and a later one,
\* arriving before the dropped one would have left, found no lane free
C27_Witness ==
    \E a \in DroppedScrolls : \E b \in 1..Len(allocations) :
        /\ a < b
        /\ allocations[a].track > 1
        /\ allocations[b].pos = 1
        /\ ~allocations[b].free
        /\ CommentOf(allocations[b].id).t
               < CommentOf(allocations[a].id).t
                   + leave_time(CommentOf(allocations[a].id).m)

----------------------------------------------------------------------------
(* Comments with an empty text *)

HasText(c) == c.m # 0

\* the list without its comments of empty text
WithText(s) == SelectSeq(s, HasText)

\* C24: the comments with a text that filter_comments returns are the ones
\* it returns for the same list without its empty-text comments; when that
\* list is within the budget, these are all of them in ascending order
C24_EmptyTextsInvisibleToFilter ==
    (FilterDone /\ Len(WithText(comments)) <= max_comments) =>
        WithText(filter_ret) = SortByTime(WithText(comments))

----------------------------------------------------------------------------
(* Runs of the pipeline at the same time *)

\* the threads in which generate_danmu has not returned yet
RunsInFlight ==
    {<<"global", k>> : k \in ThreadsIn(global_started, {"running"})}
    \cup {<<"emby", k>> : k \in ThreadsIn(emby_started, {"running"})}
    \cup {<<"transfer", k>> : k \in ThreadsIn(transfer_started, {"running"})}

\* C26: two runs of the pipeline under way at the same time write no file in
\* common, neither the danmu file nor the merged file
C26_NoSharedOutputFile ==
    \A a, b \in RunsInFlight :
        a # b =>
            OutputPaths(Target(a[1], a[2])) \cap OutputPaths(Target(b[1], b[2])) = {}

----------------------------------------------------------------------------
(* A second run on the same video *)

\* the files a run of the pipeline writes: the danmu file and merged files
Generated(name) ==
    name \in {"video.danmu", "video.zh.withDanmu", "video.zh.withDanmu.withDanmu",
              "video.zh.withDanmu.withDanmu.withDanmu"}

\* C25: find_subtitle_file never returns a file the pipeline wrote, and a
\* second run on the same video leaves the files the first run left
C25_SecondRunLeavesSameFiles ==
    /\ (runs = 2 /\ sub2 # 0) => ~Generated(directory[sub2].name)
    /\ (runs = 2 /\ pc = "returned") => FileNames(directory) = files_once

----------------------------------------------------------------------------
(* The platform filter leaving no comment *)

\* line 569 is about to remove every comment of a non-empty answer
FilterEmpties ==
    /\ pc = "gen_empty"
    /\ Len(comments) # 0
    /\ onlyFromBili
    /\ \A k \in 1..Len(comments) : comments[k].user # "bili" /\ ~NoUserField(comments[k])

\* the run has passed line 569, which removed every comment
Emptied ==
    /\ caller = "danmu_generator" /\ onlyFromBili
    /\ provided # <<>> /\ comments = <<>>
    /\ ~BeforeConvert /\ pc # "returned"

\* C28: when the platform filter removes every comment of a non-empty answer
\* the run goes on to convert_comments_to_ass instead of returning None; the
\* danmu file it leaves has no Dialogue line; and unless an exception is
\* caught it returns output_file from line 594, after the subtitle lookup
C28_EmptiedRunStillWritesAndReturns ==
    /\ [][FilterEmpties => (pc' = "convert" /\ comments' = <<>>)]_vars
    /\ [](Emptied => dialogues = <<>>)
    /\ []((Emptied /\ pc \in {"convert_done", "gen_extract", "gen_find",
                             "gen_merge", "gen_return"})
              => danmu_file = "closed")
    /\ [][(Emptied /\ pc' = "returned" /\ raised_at = "none") =>
             (pc = "gen_return" /\ result' = "output_file")]_vars

\* such a run has returned output_file after merging the empty danmu file
\* with the subtitle it extracted
C28_Witness ==
    /\ pc = "returned" /\ result = "output_file"
    /\ onlyFromBili /\ provided # <<>> /\ comments = <<>>
    /\ danmu_file = "closed" /\ dialogues = <<>>
    /\ merged

----------------------------------------------------------------------------
(* The handlers wait for their threads *)

AllJoined(started) == \A k \in 1..Len(started) : started[k] = "joined"

----------------------------------------------------------------------------
(* What danmu_generator returns *)

\* C29: when danmu_generator returns a path it is output_file, the danmu
\* file of the video, which this run wrote to its end and closed, whether the
\* merge was done, failed or was skipped
C29_ReturnsWrittenDanmuFile ==
    (pc = "returned" /\ result # "None") =>
        /\ result = "output_file"
        /\ danmu_file = "closed"
        /\ idx = Len(filter_ret) + 1
        /\ raised_at = "none"

\* a run that returned after a merge that succeeded
C29_Witness ==
    /\ pc = "returned" /\ result = "output_file"
    /\ merged
    /\ dialogues # <<>>

====
